---- MODULE Spec2Model ----
(***************************************************************************)
(* Model of the dual-secret file envelope of zoro24a/enc-denc: the         *)
(* CryptoForm pipelines handleEncrypt / handleDecrypt and the modules they *)
(* call (Metadata, KeyDerivation, KeyManagement, EncryptionStream,         *)
(* DecryptionStream, download).                                            *)
(*                                                                         *)
(* Strings and buffers are sequences of numbers: a string is the sequence  *)
(* of its character codes, a buffer the sequence of its bytes (0..255).    *)
(* Error messages and toast titles are TLA+ strings.                       *)
(***************************************************************************)
EXTENDS Integers, Sequences, FiniteSets, TLC

(***************************************************************************)
(* Protocol constants                                                      *)
(***************************************************************************)
\* src/src/utils/security.ts:3,5,9..11,14
PBKDF2_ITERATIONS == 600000
PBKDF2_KEYLEN == 32
AES_KEY_LENGTH == 256
AES_IV_LENGTH == 12
AES_TAG_LENGTH == 16
SALT_LENGTH == 16
\* src/src/components/SteganographyForm.tsx:208
MIN_PASSWORD_LENGTH == 7

\* 'DYAD'
MAGIC_HEADER == <<68, 89, 65, 68>>
\* '.dyadenc'
ENCRYPTED_FILE_EXTENSION == <<46, 100, 121, 97, 100, 101, 110, 99>>

(***************************************************************************)
(* Helpers on sequences                                                    *)
(***************************************************************************)
\* Blob.slice(start, end) / ArrayBuffer.slice(start, end) with 0-based,
\* end-exclusive offsets, both clamped to the length.
Slice(s, start, end) ==
  LET Min(a, b) == IF a < b THEN a ELSE b
  IN  IF Min(end, Len(s)) <= Min(start, Len(s)) THEN <<>>
      ELSE SubSeq(s, Min(start, Len(s)) + 1, Min(end, Len(s)))

SliceFrom(s, start) == Slice(s, start, Len(s))

\* String.prototype.endsWith
EndsWith(s, suffix) ==
  /\ Len(suffix) <= Len(s)
  /\ SubSeq(s, Len(s) - Len(suffix) + 1, Len(s)) = suffix

\* the first index from p on whose element satisfies P, Len(s) + 1 if none.
\* The loops of the platform functions below advance by it from one
\* element of interest to the next.
FirstIndex(s, p, P(_)) ==
  CHOOSE q \in p..(Len(s) + 1) :
    /\ q = Len(s) + 1 \/ P(s[q])
    /\ \A r \in p..(q - 1) : ~P(s[r])

\* x XOR 2^bit on an 8-bit byte
FlipBit(x, bit) ==
  IF (x \div (2 ^ bit)) % 2 = 1 THEN x - 2 ^ bit ELSE x + 2 ^ bit

(***************************************************************************)
(* Base64: btoa / atob                                                     *)
(***************************************************************************)
RECURSIVE Btoa(_)
Btoa(b) ==
  LET
    \* the character of a 6-bit value: A-Z a-z 0-9 + /
    B64Char(v) ==
      IF v < 26 THEN 65 + v
      ELSE IF v < 52 THEN 97 + (v - 26)
      ELSE IF v < 62 THEN 48 + (v - 52)
      ELSE IF v = 62 THEN 43 ELSE 47
  IN
  IF Len(b) = 0 THEN <<>>
  ELSE IF Len(b) = 1 THEN
    << B64Char(b[1] \div 4), B64Char((b[1] % 4) * 16), 61, 61 >>
  ELSE IF Len(b) = 2 THEN
    << B64Char(b[1] \div 4), B64Char((b[1] % 4) * 16 + (b[2] \div 16)),
       B64Char((b[2] % 16) * 4), 61 >>
  ELSE
    << B64Char(b[1] \div 4), B64Char((b[1] % 4) * 16 + (b[2] \div 16)),
       B64Char((b[2] % 16) * 4 + (b[3] \div 64)), B64Char(b[3] % 64) >>
      \o Btoa(SubSeq(b, 4, Len(b)))

\* arrayBufferToBase64
ArrayBufferToBase64(buffer) == Btoa(buffer)

\* atob: the forgiving-base64 decode: ASCII whitespace is removed, then the
\* padding a string of length 4k may end with; a length of 4k+1 or a
\* character outside the alphabet is an error.  [ok |-> FALSE] stands for
\* the InvalidCharacterError it throws.
Atob(str) ==
  LET
    IsB64Char(c) ==
      \/ c \in 65..90
      \/ c \in 97..122
      \/ c \in 48..57
      \/ c = 43
      \/ c = 47

    \* the 6-bit value of a character of the alphabet
    B64Value(c) ==
      IF c \in 65..90 THEN c - 65
      ELSE IF c \in 97..122 THEN c - 97 + 26
      ELSE IF c \in 48..57 THEN c - 48 + 52
      ELSE IF c = 43 THEN 62 ELSE 63

    IsAsciiWhitespace(c) == c \in {9, 10, 12, 13, 32}

    RECURSIVE StripWhitespace(_)
    StripWhitespaceAt(s, q) ==
      IF q > Len(s) THEN s
      ELSE SubSeq(s, 1, q - 1) \o StripWhitespace(SubSeq(s, q + 1, Len(s)))

    StripWhitespace(s) == StripWhitespaceAt(s, FirstIndex(s, 1, IsAsciiWhitespace))

    StripPadding(s) ==
      IF Len(s) = 0 \/ Len(s) % 4 # 0 THEN s
      ELSE IF s[Len(s)] # 61 THEN s
      ELSE IF Len(s) >= 2 /\ s[Len(s) - 1] = 61 THEN SubSeq(s, 1, Len(s) - 2)
      ELSE SubSeq(s, 1, Len(s) - 1)

    RECURSIVE B64DecodeGroups(_)
    B64DecodeGroups(s) ==
      IF Len(s) = 0 THEN <<>>
      ELSE IF Len(s) = 2 THEN
        << B64Value(s[1]) * 4 + (B64Value(s[2]) \div 16) >>
      ELSE IF Len(s) = 3 THEN
        << B64Value(s[1]) * 4 + (B64Value(s[2]) \div 16),
           (B64Value(s[2]) % 16) * 16 + (B64Value(s[3]) \div 4) >>
      ELSE
        << B64Value(s[1]) * 4 + (B64Value(s[2]) \div 16),
           (B64Value(s[2]) % 16) * 16 + (B64Value(s[3]) \div 4),
           (B64Value(s[3]) % 4) * 64 + B64Value(s[4]) >>
          \o B64DecodeGroups(SubSeq(s, 5, Len(s)))

    AtobStripped(t) ==
      IF Len(t) % 4 = 1 \/ \E i \in 1..Len(t) : ~IsB64Char(t[i])
      THEN [ok |-> FALSE]
      ELSE [ok |-> TRUE, bytes |-> B64DecodeGroups(t)]
  IN  AtobStripped(StripPadding(StripWhitespace(str)))

(***************************************************************************)
(* TextEncoder / TextDecoder (UTF-8)                                       *)
(*                                                                         *)
(* Code points below 128 are one byte and code points below 2048 two; a    *)
(* byte of 128 or more that does not begin a well-formed two-byte sequence *)
(* decodes to U+FFFD, a leading byte order mark is dropped.  Longer        *)
(* sequences do not occur in the files the model feeds to the decoder.     *)
(***************************************************************************)
NotAscii(c) == c >= 128

RECURSIVE TextEncode(_)
TextEncode(str) ==
  LET
    TextEncodeAt(q) ==
      IF q > Len(str) THEN str
      ELSE SubSeq(str, 1, q - 1)
           \o <<192 + (str[q] \div 64), 128 + (str[q] % 64)>>
           \o TextEncode(SubSeq(str, q + 1, Len(str)))
  IN  TextEncodeAt(FirstIndex(str, 1, NotAscii))

RECURSIVE Utf8Decode(_)
Utf8Decode(b) ==
  LET
    Utf8DecodeAt(q) ==
      IF q > Len(b) THEN b
      ELSE IF b[q] \in 194..223 /\ Len(b) >= q + 1 /\ b[q + 1] \in 128..191
        THEN SubSeq(b, 1, q - 1) \o <<(b[q] - 192) * 64 + (b[q + 1] - 128)>>
             \o Utf8Decode(SubSeq(b, q + 2, Len(b)))
      ELSE SubSeq(b, 1, q - 1) \o <<65533>> \o Utf8Decode(SubSeq(b, q + 1, Len(b)))
  IN  Utf8DecodeAt(FirstIndex(b, 1, NotAscii))

TextDecode(b) ==
  IF Len(b) >= 3 /\ SubSeq(b, 1, 3) = <<239, 187, 191>>
  THEN Utf8Decode(SubSeq(b, 4, Len(b)))
  ELSE Utf8Decode(b)

(***************************************************************************)
(* JSON values.  Every value is a record [t, v]: t is its type and v a     *)
(* sequence (the characters of a string, the lexeme of a number or of a    *)
(* literal, the elements of an array, the members of an object).           *)
(***************************************************************************)
JsonValue(t, v) == [t |-> t, v |-> v]
Undefined == JsonValue("undef", <<>>)
LitNull == <<110, 117, 108, 108>>

\* JSON.parse: [ok |-> FALSE] stands for the SyntaxError it throws.  The
\* operators are JSON's grammar, one per place of the text where the parser
\* decides: each takes what was read so far as its arguments.
JSONParse(text) ==
  LET
    LitTrue == <<116, 114, 117, 101>>
    LitFalse == <<102, 97, 108, 115, 101>>

    JsonFail == [ok |-> FALSE]
    JsonOk(val, pos) == [ok |-> TRUE, val |-> val, pos |-> pos]

    IsDigit(c) == c \in 48..57
    IsHex(c) == c \in 48..57 \/ c \in 65..70 \/ c \in 97..102
    HexValue(c) ==
      IF c \in 48..57 THEN c - 48
      ELSE IF c \in 65..70 THEN c - 55 ELSE c - 87

    \* JSON whitespace: space, tab, line feed, carriage return
    NotJsonWs(c) == c \notin {32, 9, 10, 13}
    SkipWs(s, p) == IF p > Len(s) THEN p ELSE FirstIndex(s, p, NotJsonWs)

    \* a quote, a backslash or a control character: where the scan of a string
    \* stops copying
    StringSpecial(c) == c = 34 \/ c = 92 \/ c < 32
    StringStop(s, p) == IF p > Len(s) THEN p ELSE FirstIndex(s, p, StringSpecial)

    \* the character an escape \e stands for, 0 if there is no such escape
    \* (\u is read apart)
    EscapeChar(e) ==
      IF e \in {34, 92, 47} THEN e
      ELSE IF e = 98 THEN 8
      ELSE IF e = 102 THEN 12
      ELSE IF e = 110 THEN 10
      ELSE IF e = 114 THEN 13
      ELSE IF e = 116 THEN 9
      ELSE 0

    Hex4(s, p) ==
      HexValue(s[p]) * 4096 + HexValue(s[p + 1]) * 256
      + HexValue(s[p + 2]) * 16 + HexValue(s[p + 3])

    \* the rest of a string whose opening quote has been read: from p0 on, acc
    \* being what has been read of it; p is where the copying stops
    RECURSIVE ScanString(_, _, _)
    ScanStringAt(s, p, acc) ==
      IF p > Len(s) THEN JsonFail
      ELSE IF s[p] = 34 THEN JsonOk(JsonValue("str", acc), p + 1)
      ELSE IF s[p] < 32 THEN JsonFail
      ELSE IF p + 1 > Len(s) THEN JsonFail
      ELSE IF EscapeChar(s[p + 1]) # 0
        THEN ScanString(s, p + 2, Append(acc, EscapeChar(s[p + 1])))
      ELSE IF s[p + 1] = 117 /\ p + 5 <= Len(s) /\ \A i \in 2..5 : IsHex(s[p + i])
        THEN ScanString(s, p + 6, Append(acc, Hex4(s, p + 2)))
      ELSE JsonFail

    ScanStringTo(s, p0, p, acc0) == ScanStringAt(s, p, acc0 \o SubSeq(s, p0, p - 1))

    ScanString(s, p0, acc0) == ScanStringTo(s, p0, StringStop(s, p0), acc0)

    \* a number: -?(0|[1-9][0-9]*)(\.[0-9]+)?([eE][+-]?[0-9]+)?
    \* p is where it starts, q where what has been read of it ends
    NotDigit(c) == ~IsDigit(c)
    SkipDigits(s, p) == IF p > Len(s) THEN p ELSE FirstIndex(s, p, NotDigit)

    NumberEnd(s, p, q) == JsonOk(JsonValue("num", SubSeq(s, p, q - 1)), q)

    ScanExpDigits(s, p, q, end) == IF end > q THEN NumberEnd(s, p, end) ELSE JsonFail

    ScanExpSign(s, p, q) == ScanExpDigits(s, p, q, SkipDigits(s, q))

    ScanExp(s, p, q) ==
      IF q <= Len(s) /\ s[q] \in {101, 69}
      THEN ScanExpSign(s, p, IF q + 1 <= Len(s) /\ s[q + 1] \in {43, 45}
                             THEN q + 2 ELSE q + 1)
      ELSE NumberEnd(s, p, q)

    ScanFracDigits(s, p, q, end) == IF end > q + 1 THEN ScanExp(s, p, end) ELSE JsonFail

    ScanFrac(s, p, q) ==
      IF q <= Len(s) /\ s[q] = 46
      THEN ScanFracDigits(s, p, q, SkipDigits(s, q + 1))
      ELSE ScanExp(s, p, q)

    ScanInt(s, p, q) ==
      IF q > Len(s) \/ ~IsDigit(s[q]) THEN JsonFail
      ELSE ScanFrac(s, p, IF s[q] = 48 THEN q + 1 ELSE SkipDigits(s, q))

    ScanNumber(s, p) == ScanInt(s, p, IF s[p] = 45 THEN p + 1 ELSE p)

    ScanLiteral(s, p, lexeme) ==
      IF p + Len(lexeme) - 1 <= Len(s) /\ SubSeq(s, p, p + Len(lexeme) - 1) = lexeme
      THEN JsonOk(JsonValue("lit", lexeme), p + Len(lexeme))
      ELSE JsonFail

    RECURSIVE ParseValue(_, _)
    RECURSIVE ParseMembers(_, _, _)
    RECURSIVE ParseElements(_, _, _)

    \* after a member's value: a comma and the next member, or the brace
    ParseMemberEnd(s, e, acc) ==
      IF e > Len(s) THEN JsonFail
      ELSE IF s[e] = 125 THEN JsonOk(JsonValue("obj", acc), e + 1)
      ELSE IF s[e] = 44 THEN ParseMembers(s, SkipWs(s, e + 1), acc)
      ELSE JsonFail

    ParseMemberValue(s, key, val, acc) ==
      IF ~val.ok THEN JsonFail
      ELSE ParseMemberEnd(s, SkipWs(s, val.pos),
                          Append(acc, [k |-> key.val.v, val |-> val.val]))

    ParseColon(s, key, c, acc) ==
      IF c > Len(s) \/ s[c] # 58 THEN JsonFail
      ELSE ParseMemberValue(s, key, ParseValue(s, c + 1), acc)

    ParseKey(s, key, acc) ==
      IF ~key.ok THEN JsonFail ELSE ParseColon(s, key, SkipWs(s, key.pos), acc)

    \* the members of an object from the key at p on; acc are those read
    ParseMembers(s, p, acc) ==
      IF p > Len(s) \/ s[p] # 34 THEN JsonFail
      ELSE ParseKey(s, ScanString(s, p + 1, <<>>), acc)

    \* after an element: a comma and the next element, or the bracket
    ParseElementEnd(s, e, acc) ==
      IF e > Len(s) THEN JsonFail
      ELSE IF s[e] = 93 THEN JsonOk(JsonValue("arr", acc), e + 1)
      ELSE IF s[e] = 44 THEN ParseElements(s, e + 1, acc)
      ELSE JsonFail

    ParseElement(s, val, acc) ==
      IF ~val.ok THEN JsonFail
      ELSE ParseElementEnd(s, SkipWs(s, val.pos), Append(acc, val.val))

    \* the elements of an array from p on; acc are those read
    ParseElements(s, p, acc) == ParseElement(s, ParseValue(s, p), acc)

    ParseObject(s, q) ==
      IF q <= Len(s) /\ s[q] = 125 THEN JsonOk(JsonValue("obj", <<>>), q + 1)
      ELSE ParseMembers(s, q, <<>>)

    ParseArray(s, q) ==
      IF q <= Len(s) /\ s[q] = 93 THEN JsonOk(JsonValue("arr", <<>>), q + 1)
      ELSE ParseElements(s, q, <<>>)

    \* the value that starts at p
    ParseValueAt(s, p) ==
      IF p > Len(s) THEN JsonFail
      ELSE IF s[p] = 34 THEN ScanString(s, p + 1, <<>>)
      ELSE IF s[p] = 123 THEN ParseObject(s, SkipWs(s, p + 1))
      ELSE IF s[p] = 91 THEN ParseArray(s, SkipWs(s, p + 1))
      ELSE IF s[p] = 116 THEN ScanLiteral(s, p, LitTrue)
      ELSE IF s[p] = 102 THEN ScanLiteral(s, p, LitFalse)
      ELSE IF s[p] = 110 THEN ScanLiteral(s, p, LitNull)
      ELSE IF s[p] = 45 \/ IsDigit(s[p]) THEN ScanNumber(s, p)
      ELSE JsonFail

    \* a value that starts at or after p, leading whitespace skipped
    ParseValue(s, p) == ParseValueAt(s, SkipWs(s, p))

    JsonEnd(r) ==
      IF r.ok /\ SkipWs(text, r.pos) > Len(text)
      THEN [ok |-> TRUE, val |-> r.val]
      ELSE JsonFail
  IN  JsonEnd(ParseValue(text, 1))

\* JSON.stringify of an object whose members are all strings, in the order
\* of members
JSONStringify(obj) ==
  LET
    HexDigit(v) == IF v < 10 THEN 48 + v ELSE 87 + v
    NeedsEscape(c) == c = 34 \/ c = 92 \/ c < 32

    \* the escape of a character JSON.stringify does not copy
    QuoteChar(c) ==
      IF c = 34 THEN <<92, 34>>
      ELSE IF c = 92 THEN <<92, 92>>
      ELSE IF c = 8 THEN <<92, 98>>
      ELSE IF c = 12 THEN <<92, 102>>
      ELSE IF c = 10 THEN <<92, 110>>
      ELSE IF c = 13 THEN <<92, 114>>
      ELSE IF c = 9 THEN <<92, 116>>
      ELSE <<92, 117, 48, 48, HexDigit(c \div 16), HexDigit(c % 16)>>

    \* the quoted form of a string in JSON.stringify
    RECURSIVE QuoteChars(_)
    QuoteCharsAt(str, q) ==
      IF q > Len(str) THEN str
      ELSE SubSeq(str, 1, q - 1) \o QuoteChar(str[q])
           \o QuoteChars(SubSeq(str, q + 1, Len(str)))

    QuoteChars(str) == QuoteCharsAt(str, FirstIndex(str, 1, NeedsEscape))

    Quote(str) == <<34>> \o QuoteChars(str) \o <<34>>

    \* JSON.stringify of an object whose members are all strings, in the order
    \* of members
    RECURSIVE StringifyMembers(_)
    StringifyMembers(members) ==
      IF Len(members) = 0 THEN <<>>
      ELSE Quote(members[1].k) \o <<58>> \o Quote(members[1].val.v)
           \o (IF Len(members) > 1 THEN <<44>> ELSE <<>>)
           \o StringifyMembers(Tail(members))
  IN  <<123>> \o StringifyMembers(obj.v) \o <<125>>

IsNull(value) == value.t = "lit" /\ value.v = LitNull

\* the property access  value.key  on a parsed value that is not null: the
\* last member of that name of an object, undefined on every other value
GetProperty(value, key) ==
  LET
    RECURSIVE LastMember(_, _)
    LastMember(members, i) ==
      IF i = 0 THEN Undefined
      ELSE IF members[i].k = key THEN members[i].val
      ELSE LastMember(members, i - 1)
  IN  IF value.t = "obj" THEN LastMember(value.v, Len(value.v)) ELSE Undefined

\* String(value), as atob and the download attribute apply it
RECURSIVE JsToString(_)
JsToString(value) ==
  LET
    RECURSIVE JoinElements(_)
    JoinElements(elems) ==
      IF Len(elems) = 0 THEN <<>>
      ELSE (IF IsNull(elems[1]) THEN <<>> ELSE JsToString(elems[1]))
           \o (IF Len(elems) > 1 THEN <<44>> ELSE <<>>)
           \o JoinElements(Tail(elems))
  IN  IF value.t \in {"str", "num", "lit"} THEN value.v
      ELSE IF value.t = "undef"
        THEN <<117, 110, 100, 101, 102, 105, 110, 101, 100>>
      ELSE IF value.t = "arr" THEN JoinElements(value.v)
      \* '[object Object]'
      ELSE <<91, 111, 98, 106, 101, 99, 116, 32, 79, 98, 106, 101, 99, 116, 93>>

(***************************************************************************)
(* Errors.  An error is its constructor's name and its message; the        *)
(* messages of the errors the platform throws (DataView, property access,  *)
(* atob, SubtleCrypto) are the platform's, not the repository's.           *)
(***************************************************************************)
Error(message) == [name |-> "Error", message |-> message]

MagicMismatchError == Error("Invalid file format: Magic header mismatch.")
JsonParsingError == Error("Invalid file format: Metadata JSON parsing failed.")
SaltLengthError == Error("Metadata integrity check failed: Invalid salt length.")
IvLengthError ==
  Error("Metadata integrity check failed: Invalid wrapping IV length.")
TooShortError == Error("Encrypted data too short.")
PayloadIntegrityError ==
  Error("Integrity check failed: Data may be corrupted or key is incorrect.")
AuthenticationFailedError ==
  Error("Authentication failed: Invalid password or receiver email.")

\* DataView.getUint32 beyond the end of the buffer
DataViewRangeError ==
  [name |-> "RangeError", message |-> "Offset is outside the bounds of the DataView"]
\* a property read on null
NullPropertyError ==
  [name |-> "TypeError", message |-> "Cannot read properties of null"]
\* atob on a string that is not base64
AtobError ==
  [name |-> "InvalidCharacterError",
   message |-> "The string to be decoded is not correctly encoded."]
\* a rejection of a SubtleCrypto promise
ProviderError ==
  [name |-> "OperationError", message |-> "The operation failed for an operation-specific reason"]

Ok(value) == [ok |-> TRUE, value |-> value]
Throw(error) == [ok |-> FALSE, error |-> error]

(***************************************************************************)
(* Metadata codec                                                          *)
(***************************************************************************)
\* the property names of Metadata
KeyFileName == <<102, 105, 108, 101, 78, 97, 109, 101>>
KeySp == <<115, 112>>
KeySe == <<115, 101>>
KeyWiv == <<119, 105, 118>>
KeyWdek == <<119, 100, 101, 107>>

\* DataView.setUint32(offset, n, false): the high byte first
Uint32BE(n) ==
  << (n \div 16777216) % 256, (n \div 65536) % 256, (n \div 256) % 256, n % 256 >>

\* DataView.setUint32(offset, n, true): the four bytes of n, low byte first
Uint32LE(n) ==
  << n % 256, (n \div 256) % 256, (n \div 65536) % 256, (n \div 16777216) % 256 >>

\* DataView.getUint32(4, true) on the first eight bytes.  The model checker's
\* integers end below 2^31: a length of 2^30 or more is read as 2^30, which
\* like it lies beyond the end of every file of the model (every use of the
\* length is a slice offset, clamped to the file's size).
GetUint32LE(buf) ==
  IF buf[8] >= 64 THEN 64 * 16777216
  ELSE buf[5] + buf[6] * 256 + buf[7] * 65536 + buf[8] * 16777216

Metadata(fileName, sp, se, wiv, wdek) ==
  JsonValue("obj", << [k |-> KeyFileName, val |-> JsonValue("str", fileName)],
          [k |-> KeySp, val |-> JsonValue("str", sp)],
          [k |-> KeySe, val |-> JsonValue("str", se)],
          [k |-> KeyWiv, val |-> JsonValue("str", wiv)],
          [k |-> KeyWdek, val |-> JsonValue("str", wdek)] >>)

\* the magic, the length of the metadata and the metadata
HeaderOf(metadataBuffer) ==
  MAGIC_HEADER \o Uint32LE(Len(metadataBuffer)) \o metadataBuffer

\* packageMetadata with the two salts in each other's place
PackageMetadataSwapped(fileName, sp, se, wiv, wdek) ==
  HeaderOf(TextEncode(JSONStringify(
    Metadata(fileName, ArrayBufferToBase64(se), ArrayBufferToBase64(sp),
             ArrayBufferToBase64(wiv), ArrayBufferToBase64(wdek)))))

PackageMetadata(fileName, sp, se, wiv, wdek) ==
  HeaderOf(TextEncode(JSONStringify(
    Metadata(fileName, ArrayBufferToBase64(sp), ArrayBufferToBase64(se),
             ArrayBufferToBase64(wiv), ArrayBufferToBase64(wdek)))))

\* base64ToArrayBuffer applied to a property of the parsed metadata
Base64ToArrayBuffer(value) == Atob(JsToString(value))

MagicMatches(magic) ==
  \A i \in 1..4 : i <= Len(magic) /\ magic[i] = MAGIC_HEADER[i]

\* parseMetadata rejecting the salts only when both lengths are wrong
CheckLengthsBothSalts(fileName, sp, se, wiv, wdek, headerLength) ==
  IF ~sp.ok \/ ~se.ok \/ ~wiv.ok \/ ~wdek.ok THEN Throw(AtobError)
  ELSE IF Len(sp.bytes) # SALT_LENGTH /\ Len(se.bytes) # SALT_LENGTH
    THEN Throw(SaltLengthError)
  ELSE IF Len(wiv.bytes) # AES_IV_LENGTH THEN Throw(IvLengthError)
  ELSE Ok([fileName |-> fileName, sp |-> sp.bytes, se |-> se.bytes,
           wiv |-> wiv.bytes, wdek |-> wdek.bytes,
           headerLength |-> headerLength])

\* parseMetadata, the length checks on the decoded fields
CheckLengths(fileName, sp, se, wiv, wdek, headerLength) ==
  IF ~sp.ok \/ ~se.ok \/ ~wiv.ok \/ ~wdek.ok THEN Throw(AtobError)
  ELSE IF Len(sp.bytes) # SALT_LENGTH \/ Len(se.bytes) # SALT_LENGTH
    THEN Throw(SaltLengthError)
  ELSE IF Len(wiv.bytes) # AES_IV_LENGTH THEN Throw(IvLengthError)
  ELSE Ok([fileName |-> fileName, sp |-> sp.bytes, se |-> se.bytes,
           wiv |-> wiv.bytes, wdek |-> wdek.bytes,
           headerLength |-> headerLength])

\* parseMetadata, the decoding of the parsed metadata
DecodeMetadata(parsedJson, headerLength) ==
  IF ~parsedJson.ok THEN Throw(JsonParsingError)
  ELSE IF IsNull(parsedJson.val) THEN Throw(NullPropertyError)
  ELSE CheckLengths(GetProperty(parsedJson.val, KeyFileName),
                    Base64ToArrayBuffer(GetProperty(parsedJson.val, KeySp)),
                    Base64ToArrayBuffer(GetProperty(parsedJson.val, KeySe)),
                    Base64ToArrayBuffer(GetProperty(parsedJson.val, KeyWiv)),
                    Base64ToArrayBuffer(GetProperty(parsedJson.val, KeyWdek)),
                    headerLength)

\* parseMetadata, the metadata of a header of headerLength bytes
ParseMetadataJson(file, headerLength) ==
  DecodeMetadata(JSONParse(TextDecode(Slice(file, 8, headerLength))),
                 headerLength)

\* parseMetadata without the check of the magic
CheckMagicSkipped(file, magicAndLengthBuffer) ==
  IF Len(magicAndLengthBuffer) < 8 THEN Throw(DataViewRangeError)
  ELSE ParseMetadataJson(file, 8 + GetUint32LE(magicAndLengthBuffer))

\* parseMetadata, the magic and the length
CheckMagic(file, magicAndLengthBuffer) ==
  IF ~MagicMatches(Slice(magicAndLengthBuffer, 0, 4))
    THEN Throw(MagicMismatchError)
  ELSE IF Len(magicAndLengthBuffer) < 8 THEN Throw(DataViewRangeError)
  ELSE ParseMetadataJson(file, 8 + GetUint32LE(magicAndLengthBuffer))

\* parseMetadata on the bytes of the file: Ok(ParsedMetadata) or the error
\* thrown
ParseMetadata(file) == CheckMagic(file, Slice(file, 0, 8))

(***************************************************************************)
(* The platform's cryptography, idealised.                                 *)
(*                                                                         *)
(* crypto.getRandomValues and generateKey draw from one source shared by   *)
(* the page; the source is ideal, so the r-th draw is a value never drawn  *)
(* before.  A derived key's material is the term of its derivation         *)
(* (PBKDF2 and HKDF are injective in their inputs).  AES-GCM is the ideal  *)
(* authenticated cipher: the table `gcm` holds every (key, iv, plaintext)  *)
(* ever encrypted, the k-th entry's ciphertext is Cipher(k, n), and a      *)
(* decryption succeeds exactly on the ciphertext of an entry made under    *)
(* the same key and iv.                                                    *)
(***************************************************************************)
RandomBytes(n, r) == [i \in 1..n |-> (r * 53 + i * 11) % 256]

\* the ciphertext and tag of the k-th encryption, of a plaintext of n bytes
Cipher(k, n) == [i \in 1..(n + AES_TAG_LENGTH) |-> (k * 31 + i * 7) % 256]

AesUsages == {"encrypt", "decrypt"}

CryptoKey(raw, extractable, usages) ==
  [algorithm |-> "AES-GCM", extractable |-> extractable, usages |-> usages,
   raw |-> raw]

NoKey == [alg |-> "none"]

\* crypto.subtle.encrypt({name: 'AES-GCM', iv}, key, pt) on the table: the
\* table after it and the ciphertext and tag
AesGcmEncrypt(table, key, iv, pt) ==
  LET
    \* the k-th entry of the table is the encryption of pt under key and iv
    GcmEncrypted(k) ==
      table[k].key = key.raw /\ table[k].iv = iv /\ table[k].pt = pt

    GcmIndex ==
      IF \E k \in 1..Len(table) : GcmEncrypted(k)
      THEN CHOOSE k \in 1..Len(table) : GcmEncrypted(k)
      ELSE Len(table) + 1

    GcmEntry(k) ==
      [table |-> IF k > Len(table)
                 THEN Append(table, [key |-> key.raw, iv |-> iv, pt |-> pt])
                 ELSE table,
       data |-> Cipher(k, Len(pt))]
  IN  GcmEntry(GcmIndex)

\* crypto.subtle.decrypt({name: 'AES-GCM', iv}, key, data): the plaintext,
\* or the OperationError of a failed tag verification
AesGcmDecrypt(table, key, iv, data) ==
  LET
    \* the k-th entry of the table is an encryption under key and iv whose
    \* ciphertext and tag are data
    GcmDecrypts(k) ==
      /\ table[k].key = key.raw
      /\ table[k].iv = iv
      /\ Cipher(k, Len(table[k].pt)) = data
  IN  IF \E k \in 1..Len(table) : GcmDecrypts(k)
      THEN Ok(table[CHOOSE k \in 1..Len(table) : GcmDecrypts(k)].pt)
      ELSE Throw(ProviderError)

(***************************************************************************)
(* KeyDerivation, KeyManagement, EncryptionStream, DecryptionStream.       *)
(* fault: the SubtleCrypto call of the function rejects.                   *)
(***************************************************************************)
\* generateSalt returning one and the same salt
GenerateSaltFixed(r) == RandomBytes(SALT_LENGTH, 0)

GenerateSalt(r) == RandomBytes(SALT_LENGTH, r)

\* deriveKeyPBKDF2 stretching without the salt
DeriveKeyPBKDF2Unsalted(secret, salt, fault) ==
  IF fault THEN Throw(ProviderError)
  ELSE Ok(CryptoKey([alg |-> "PBKDF2", secret |-> TextEncode(secret),
                     salt |-> <<>>, iterations |-> PBKDF2_ITERATIONS,
                     hash |-> "SHA-256", length |-> PBKDF2_KEYLEN * 8],
                    TRUE, {"encrypt", "decrypt", "wrapKey", "unwrapKey"}))

DeriveKeyPBKDF2(secret, salt, fault) ==
  IF fault THEN Throw(ProviderError)
  ELSE Ok(CryptoKey([alg |-> "PBKDF2", secret |-> TextEncode(secret),
                     salt |-> salt, iterations |-> PBKDF2_ITERATIONS,
                     hash |-> "SHA-256", length |-> PBKDF2_KEYLEN * 8],
                    TRUE, {"encrypt", "decrypt", "wrapKey", "unwrapKey"}))

GenerateDataEncryptionKey(r, fault) ==
  IF fault THEN Throw(ProviderError)
  ELSE Ok(CryptoKey([alg |-> "raw", bytes |-> RandomBytes(AES_KEY_LENGTH \div 8, r)],
                    TRUE, AesUsages))

\* deriveMasterKey from the password key alone
DeriveMasterKeyPasswordOnly(kp, ke, fault) ==
  IF fault \/ ~kp.extractable \/ ~ke.extractable THEN Throw(ProviderError)
  ELSE Ok(CryptoKey([alg |-> "HKDF", ikm |-> <<kp.raw, kp.raw>>,
                     hash |-> "SHA-256", salt |-> <<>>,
                     info |-> "Dyad File Encryption Master Key",
                     length |-> AES_KEY_LENGTH],
                    FALSE, AesUsages))

\* deriveMasterKey from the two secrets whatever their order and their salts
DeriveMasterKeyUnordered(kp, ke, fault) ==
  IF fault \/ ~kp.extractable \/ ~ke.extractable THEN Throw(ProviderError)
  ELSE Ok(CryptoKey([alg |-> "HKDF", ikm |-> {kp.raw.secret, ke.raw.secret},
                     hash |-> "SHA-256", salt |-> <<>>,
                     info |-> "Dyad File Encryption Master Key",
                     length |-> AES_KEY_LENGTH],
                    FALSE, AesUsages))

\* 'Dyad File Encryption Master Key' is the info of the derivation
DeriveMasterKey(kp, ke, fault) ==
  IF fault \/ ~kp.extractable \/ ~ke.extractable THEN Throw(ProviderError)
  ELSE Ok(CryptoKey([alg |-> "HKDF", ikm |-> <<kp.raw, ke.raw>>,
                     hash |-> "SHA-256", salt |-> <<>>,
                     info |-> "Dyad File Encryption Master Key",
                     length |-> AES_KEY_LENGTH],
                    FALSE, AesUsages))

\* the result of a function that encrypts: its value and the table after it
Encrypted(value, table) == [ok |-> TRUE, value |-> value, table |-> table]

\* wrapDataKey handing out the exported key as it is
WrapDataKeyPlain(table, r, dek, km, fault) ==
  IF fault \/ ~dek.extractable \/ "encrypt" \notin km.usages
  THEN Throw(ProviderError)
  ELSE Encrypted([wrappedKey |-> dek.raw.bytes,
                  iv |-> RandomBytes(AES_IV_LENGTH, r)], table)

\* wrapDataKey: r is the draw of the wrapping IV
WrapDataKey(table, r, dek, km, fault) ==
  LET
    WrappedKey(iv, enc) ==
      Encrypted([wrappedKey |-> enc.data, iv |-> iv], enc.table)
    WrapWithIv(iv) == WrappedKey(iv, AesGcmEncrypt(table, km, iv, dek.raw.bytes))
  IN  IF fault \/ ~dek.extractable \/ "encrypt" \notin km.usages
      THEN Throw(ProviderError)
      ELSE WrapWithIv(RandomBytes(AES_IV_LENGTH, r))

\* unwrapDataKey, the import of the decrypted key
ImportDek(dekRaw) ==
  IF ~dekRaw.ok \/ Len(dekRaw.value) \notin {16, 24, 32}
  THEN Throw(AuthenticationFailedError)
  ELSE Ok(CryptoKey([alg |-> "raw", bytes |-> dekRaw.value], TRUE, AesUsages))

\* unwrapDataKey without its catch block: the provider's error goes out
UnwrapDataKeyUncaught(table, wrappedKey, iv, km, fault) ==
  IF fault \/ "decrypt" \notin km.usages THEN Throw(ProviderError)
  ELSE IF AesGcmDecrypt(table, km, iv, wrappedKey).ok
    THEN ImportDek(AesGcmDecrypt(table, km, iv, wrappedKey))
  ELSE Throw(ProviderError)

\* unwrapDataKey: every failure inside the try block becomes the one error
UnwrapDataKey(table, wrappedKey, iv, km, fault) ==
  IF fault \/ "decrypt" \notin km.usages THEN Throw(AuthenticationFailedError)
  ELSE ImportDek(AesGcmDecrypt(table, km, iv, wrappedKey))

\* encryptFileStream: r is the draw of the payload IV
EncryptFileStream(table, r, fileBytes, dek, fault) ==
  LET
    EncryptedFile(iv, enc) == Encrypted(iv \o enc.data, enc.table)
    EncryptWithIv(iv) == EncryptedFile(iv, AesGcmEncrypt(table, dek, iv, fileBytes))
  IN  IF fault \/ "encrypt" \notin dek.usages THEN Throw(ProviderError)
      ELSE EncryptWithIv(RandomBytes(AES_IV_LENGTH, r))

\* decryptFileStream, the outcome of crypto.subtle.decrypt
Decrypted(decryptedData) ==
  IF ~decryptedData.ok
  THEN [ok |-> FALSE, error |-> PayloadIntegrityError, decryptCalled |-> TRUE]
  ELSE [ok |-> TRUE, value |-> decryptedData.value, decryptCalled |-> TRUE]

\* decryptFileStream with <= for < in its length check
DecryptFileStreamOffByOne(table, encryptedBuffer, dek, fault) ==
  IF Len(encryptedBuffer) <= AES_IV_LENGTH + AES_TAG_LENGTH
    THEN [ok |-> FALSE, error |-> TooShortError, decryptCalled |-> FALSE]
  ELSE IF fault \/ "decrypt" \notin dek.usages
    THEN [ok |-> FALSE, error |-> PayloadIntegrityError, decryptCalled |-> TRUE]
  ELSE Decrypted(AesGcmDecrypt(table, dek, Slice(encryptedBuffer, 0, AES_IV_LENGTH),
                               SliceFrom(encryptedBuffer, AES_IV_LENGTH)))

\* decryptFileStream: decryptCalled tells whether crypto.subtle.decrypt
\* was reached
DecryptFileStream(table, encryptedBuffer, dek, fault) ==
  IF Len(encryptedBuffer) < AES_IV_LENGTH + AES_TAG_LENGTH
    THEN [ok |-> FALSE, error |-> TooShortError, decryptCalled |-> FALSE]
  ELSE IF fault \/ "decrypt" \notin dek.usages
    THEN [ok |-> FALSE, error |-> PayloadIntegrityError, decryptCalled |-> TRUE]
  ELSE Decrypted(AesGcmDecrypt(table, dek, Slice(encryptedBuffer, 0, AES_IV_LENGTH),
                               SliceFrom(encryptedBuffer, AES_IV_LENGTH)))

(***************************************************************************)
(* The page: the CryptoForm instances, the files the user can select and   *)
(* what the user can type.                                                 *)
(***************************************************************************)
\* the two forms of the Index page
Forms == {1, 2}
DefaultMode == [f \in Forms |-> IF f = 1 THEN "encrypt" ELSE "decrypt"]

NoFile == [exists |-> FALSE]
File(name, bytes) == [exists |-> TRUE, name |-> name, bytes |-> bytes]

\* 'a.txt' (empty) and 'h.txt' ('hello')
PlainFiles ==
  { File(<<97, 46, 116, 120, 116>>, <<>>),
    File(<<104, 46, 116, 120, 116>>, <<104, 101, 108, 108, 111>>) }

\* '', 'secret', 'correcthorse', 'a@b.com'
Passwords ==
  { <<>>, <<115, 101, 99, 114, 101, 116>>,
    <<99, 111, 114, 114, 101, 99, 116, 104, 111, 114, 115, 101>>,
    <<97, 64, 98, 46, 99, 111, 109>> }

\* '', 'a@b.com', 'correcthorse'
Emails ==
  { <<>>, <<97, 64, 98, 46, 99, 111, 109>>,
    <<99, 111, 114, 114, 101, 99, 116, 104, 111, 114, 115, 101>> }

\* the number of encryptions of one form the model follows
MaxEncryptions == 1

\* the number of corrupted copies of an envelope the model follows
MaxCorruptions == 1

(***************************************************************************)
(* State                                                                   *)
(***************************************************************************)
VARIABLES
  mode,           \* useState: 'encrypt' or 'decrypt', per form
  file,           \* useState: the selected file or NoFile
  password,       \* useState
  receiverEmail,  \* useState
  isLoading,      \* useState
  pc,             \* where the form's running handler awaits, or "idle"
  local,          \* the constants of the running handler
  toast,          \* the toast the form's last invocation raised
  downloads,      \* the files the form's last invocation passed to downloadFile
  calls,          \* the module functions the form's last invocation called
  disk,           \* every file saved by downloadFile
  rng,            \* the number of draws made from the random source
  gcm,            \* the table of the ideal AES-GCM
  encLog,         \* the inputs and the envelope of every encryption started
  corrupted       \* the number of corrupted copies handed to the user

vars == << mode, file, password, receiverEmail, isLoading, pc, local, toast,
           downloads, calls, disk, rng, gcm, encLog, corrupted >>

formVars == << mode, file, password, receiverEmail >>

NoToast == [title |-> "", description |-> "", arg |-> <<>>, variant |-> ""]
Toast(title, description, arg, variant) ==
  [title |-> title, description |-> description, arg |-> arg, variant |-> variant]

NoLocal == [op |-> "none"]

NoError == [name |-> "", message |-> ""]

\* one entry of the call log: the module function called, the bytes it was
\* given (kept for decryptFileStream), its result r, and the key material
\* of the AES-GCM operation it reached
Called(fn, arg, r, key) ==
  [fn |-> fn, arg |-> arg, ok |-> r.ok,
   error |-> IF r.ok THEN NoError ELSE r.error, key |-> key]

Init ==
  /\ mode = DefaultMode
  /\ file = [f \in Forms |-> NoFile]
  /\ password = [f \in Forms |-> <<>>]
  /\ receiverEmail = [f \in Forms |-> <<>>]
  /\ isLoading = [f \in Forms |-> FALSE]
  /\ pc = [f \in Forms |-> "idle"]
  /\ local = [f \in Forms |-> NoLocal]
  /\ toast = [f \in Forms |-> NoToast]
  /\ downloads = [f \in Forms |-> <<>>]
  /\ calls = [f \in Forms |-> <<>>]
  /\ disk = {}
  /\ rng = 0
  /\ gcm = <<>>
  /\ encLog = <<>>
  /\ corrupted = 0

(***************************************************************************)
(* The user's inputs.  A handler works on the file, password and email its *)
(* closure captured when it was invoked, so the model lets the user change *)
(* them only between invocations, once the toast of the last one is gone.  *)
(***************************************************************************)
Quiet(f) == pc[f] = "idle" /\ toast[f] = NoToast

\* handleFileChange without its second branch
ModeForExtensionOnly(defaultMode, selectedFile) ==
  IF defaultMode = "encrypt" /\ EndsWith(selectedFile.name, ENCRYPTED_FILE_EXTENSION)
    THEN "decrypt"
  ELSE defaultMode

\* handleFileChange
ModeFor(defaultMode, selectedFile) ==
  IF defaultMode = "encrypt" /\ EndsWith(selectedFile.name, ENCRYPTED_FILE_EXTENSION)
    THEN "decrypt"
  ELSE IF defaultMode = "decrypt" /\ ~EndsWith(selectedFile.name, ENCRYPTED_FILE_EXTENSION)
    THEN "encrypt"
  ELSE defaultMode

HandleFileChange(f, selectedFile) ==
  /\ Quiet(f)
  /\ file' = [file EXCEPT ![f] = selectedFile]
  /\ mode' = IF selectedFile.exists
             THEN [mode EXCEPT ![f] = ModeFor(DefaultMode[f], selectedFile)]
             ELSE mode
  /\ UNCHANGED << password, receiverEmail, isLoading, pc, local, toast,
                  downloads, calls, disk, rng, gcm, encLog >>

SetPassword(f, value) ==
  /\ Quiet(f)
  /\ password' = [password EXCEPT ![f] = value]
  /\ UNCHANGED << mode, file, receiverEmail, isLoading, pc, local, toast,
                  downloads, calls, disk, rng, gcm, encLog, corrupted >>

SetReceiverEmail(f, value) ==
  /\ Quiet(f)
  /\ receiverEmail' = [receiverEmail EXCEPT ![f] = value]
  /\ UNCHANGED << mode, file, password, isLoading, pc, local, toast,
                  downloads, calls, disk, rng, gcm, encLog, corrupted >>

\* the toast disappears
DismissToast(f) ==
  /\ pc[f] = "idle"
  /\ toast[f] # NoToast
  /\ toast' = [toast EXCEPT ![f] = NoToast]
  /\ downloads' = [downloads EXCEPT ![f] = <<>>]
  /\ calls' = [calls EXCEPT ![f] = <<>>]
  /\ UNCHANGED << formVars, isLoading, pc, local, disk, rng, gcm, encLog,
                  corrupted >>


(***************************************************************************)
(* What the handlers share                                                 *)
(***************************************************************************)
\* a Button with disabled={!file}
ButtonEnabledWhileLoading(f) == file[f].exists

\* the Button's disabled={isLoading || !file}
ButtonEnabled(f) == ~isLoading[f] /\ file[f].exists

\* the handlers with the first early return alone
GateToastNoMinimum(f, missing) ==
  IF ~file[f].exists \/ Len(password[f]) = 0 \/ Len(receiverEmail[f]) = 0
    THEN Toast("Missing Inputs", missing, <<>>, "destructive")
  ELSE NoToast

\* the two early returns of handleEncrypt and handleDecrypt
GateToast(f, missing) ==
  IF ~file[f].exists \/ Len(password[f]) = 0 \/ Len(receiverEmail[f]) = 0
    THEN Toast("Missing Inputs", missing, <<>>, "destructive")
  ELSE IF Len(password[f]) < MIN_PASSWORD_LENGTH
    THEN Toast("Password Too Short", "Password must be at least 7 characters long.",
               <<>>, "destructive")
  ELSE NoToast

\* error instanceof Error: true of every error the model throws (a
\* DOMException inherits from Error.prototype)
InstanceOfError(error) ==
  error.name \in {"Error", "RangeError", "TypeError", "InvalidCharacterError",
                  "OperationError"}

FailureToast(title, error, fallback) ==
  Toast(title, IF InstanceOfError(error) THEN error.message ELSE fallback,
        <<>>, "destructive")

Log(f, entry) == calls' = [calls EXCEPT ![f] = Append(@, entry)]

\* the handlers keeping their constants in one place for the whole page
ContinueShared(f, next, loc) ==
  /\ pc' = [pc EXCEPT ![f] = next]
  /\ local' = [g \in Forms |-> IF g = f \/ pc[g] # "idle" THEN loc ELSE local[g]]
  /\ UNCHANGED << toast, isLoading >>

\* the handler goes on to its next await
Continue(f, next, loc) ==
  /\ pc' = [pc EXCEPT ![f] = next]
  /\ local' = [local EXCEPT ![f] = loc]
  /\ UNCHANGED << toast, isLoading >>

\* the handler ends: the toast of its try or catch block, then finally
Finish(f, t) ==
  /\ pc' = [pc EXCEPT ![f] = "idle"]
  /\ local' = [local EXCEPT ![f] = NoLocal]
  /\ toast' = [toast EXCEPT ![f] = t]
  /\ isLoading' = [isLoading EXCEPT ![f] = FALSE]

\* the catch block of handleEncrypt
EncryptFailed(f, error) ==
  Finish(f, FailureToast("Encryption Failed", error,
                         "An unknown error occurred during encryption."))

\* the catch block of handleDecrypt
DecryptFailed(f, error) ==
  Finish(f, FailureToast("Decryption Failed", error,
                         "Authentication failed: Invalid password or receiver email."))

\* downloadFile(blob, filename)
DownloadFile(f, saved) ==
  /\ downloads' = [downloads EXCEPT ![f] = Append(@, saved)]
  /\ disk' = disk \cup {saved}

(***************************************************************************)
(* handleEncrypt, one action per await.  The operator named ...ed is the   *)
(* handler's continuation on the result r of the function it awaited.      *)
(***************************************************************************)
\* the encryptions form f started
EncryptionsOf(f) == { i \in 1..Len(encLog) : encLog[i].form = f }

EncryptStarted(f, sp, se) ==
  /\ Cardinality(EncryptionsOf(f)) < MaxEncryptions
  /\ isLoading' = [isLoading EXCEPT ![f] = TRUE]
  /\ local' = [local EXCEPT ![f] =
       [op |-> "encrypt", sp |-> sp, se |-> se, logIndex |-> Len(encLog) + 1]]
  /\ rng' = rng + 2
  /\ encLog' = Append(encLog, [form |-> f, file |-> file[f],
                               password |-> password[f],
                               email |-> receiverEmail[f], envelope |-> NoFile])
  /\ pc' = [pc EXCEPT ![f] = "enc_kp"]
  /\ calls' = [calls EXCEPT ![f] =
       << Called("generateSalt", <<>>, Ok(sp), NoKey),
          Called("generateSalt", <<>>, Ok(se), NoKey) >>]
  /\ UNCHANGED toast

EncryptGated(f, gate) ==
  IF gate # NoToast
  THEN /\ toast' = [toast EXCEPT ![f] = gate]
       /\ UNCHANGED << isLoading, pc, local, calls, rng, encLog >>
  ELSE EncryptStarted(f, GenerateSalt(rng), GenerateSalt(rng + 1))

HandleEncrypt(f) ==
  /\ toast[f] = NoToast
  /\ ButtonEnabled(f)
  /\ mode[f] = "encrypt"
  /\ EncryptGated(f, GateToast(f, "Please provide a file, password, and receiver email."))
  /\ UNCHANGED << formVars, downloads, disk, gcm, corrupted >>

\* the handler of form f goes on after a function that returned r: to the
\* await `next` with the constant `name` bound, or to its catch block
EncryptAwaited(f, fn, r, key, next, name) ==
  /\ Log(f, Called(fn, <<>>, r, key))
  /\ IF r.ok THEN Continue(f, next, [x \in {name} |-> r.value] @@ local[f])
     ELSE EncryptFailed(f, r.error)

EncDeriveKp(f, fault) ==
  /\ pc[f] = "enc_kp"
  /\ EncryptAwaited(f, "deriveKeyPBKDF2",
                    DeriveKeyPBKDF2(password[f], local[f].sp, fault),
                    NoKey, "enc_ke", "kp")
  /\ UNCHANGED << formVars, downloads, disk, rng, gcm, encLog, corrupted >>

EncDeriveKe(f, fault) ==
  /\ pc[f] = "enc_ke"
  /\ EncryptAwaited(f, "deriveKeyPBKDF2",
                    DeriveKeyPBKDF2(receiverEmail[f], local[f].se, fault),
                    NoKey, "enc_km", "ke")
  /\ UNCHANGED << formVars, downloads, disk, rng, gcm, encLog, corrupted >>

EncDeriveKm(f, fault) ==
  /\ pc[f] = "enc_km"
  /\ EncryptAwaited(f, "deriveMasterKey",
                    DeriveMasterKey(local[f].kp, local[f].ke, fault),
                    NoKey, "enc_dek", "km")
  /\ UNCHANGED << formVars, downloads, disk, rng, gcm, encLog, corrupted >>

EncGenerateDek(f, fault) ==
  /\ pc[f] = "enc_dek"
  /\ EncryptAwaited(f, "generateDataEncryptionKey",
                    GenerateDataEncryptionKey(rng, fault),
                    NoKey, "enc_wrap", "dek")
  /\ rng' = rng + 1
  /\ UNCHANGED << formVars, downloads, disk, gcm, encLog, corrupted >>

EncWrapped(f, r) ==
  /\ EncryptAwaited(f, "wrapDataKey", r, local[f].km.raw, "enc_file", "wrapped")
  /\ gcm' = IF r.ok THEN r.table ELSE gcm

EncWrap(f, fault) ==
  /\ pc[f] = "enc_wrap"
  /\ EncWrapped(f, WrapDataKey(gcm, rng, local[f].dek, local[f].km, fault))
  /\ rng' = rng + 1
  /\ UNCHANGED << formVars, downloads, disk, encLog, corrupted >>

\* the final Blob, downloadFile and the toast
EncSaved(f, saved) ==
  /\ DownloadFile(f, saved)
  /\ encLog' = [encLog EXCEPT ![local[f].logIndex].envelope = saved]
  /\ Finish(f, Toast("Encryption Successful", "File saved as", saved.name, ""))

\* the final Blob with the encrypted content before the header
EncPackagedContentFirst(f, content, header) ==
  EncSaved(f, File(file[f].name \o ENCRYPTED_FILE_EXTENSION, content \o header))

\* packageMetadata
EncPackaged(f, content, header) ==
  EncSaved(f, File(file[f].name \o ENCRYPTED_FILE_EXTENSION, header \o content))

EncEncrypted(f, r) ==
  /\ Log(f, Called("encryptFileStream", <<>>, r, local[f].dek.raw))
  /\ IF r.ok
     THEN /\ gcm' = r.table
          /\ EncPackaged(f, r.value,
               PackageMetadata(file[f].name, local[f].sp, local[f].se,
                               local[f].wrapped.iv, local[f].wrapped.wrappedKey))
     ELSE /\ EncryptFailed(f, r.error)
          /\ UNCHANGED << gcm, downloads, disk, encLog >>

\* handleEncrypt encrypting the file under the master key
EncFileMasterKey(f, fault) ==
  /\ pc[f] = "enc_file"
  /\ EncEncrypted(f, EncryptFileStream(gcm, rng, file[f].bytes, local[f].km, fault))
  /\ rng' = rng + 1
  /\ UNCHANGED << formVars, corrupted >>

\* encryptFileStream, then packageMetadata, the final Blob, downloadFile and
\* the toast
EncFile(f, fault) ==
  /\ pc[f] = "enc_file"
  /\ EncEncrypted(f, EncryptFileStream(gcm, rng, file[f].bytes, local[f].dek, fault))
  /\ rng' = rng + 1
  /\ UNCHANGED << formVars, corrupted >>

(***************************************************************************)
(* handleDecrypt, one action per await                                     *)
(***************************************************************************)
DecryptGated(f, gate) ==
  IF gate # NoToast
  THEN /\ toast' = [toast EXCEPT ![f] = gate]
       /\ UNCHANGED << isLoading, pc, local >>
  ELSE /\ isLoading' = [isLoading EXCEPT ![f] = TRUE]
       /\ local' = [local EXCEPT ![f] = [op |-> "decrypt"]]
       /\ pc' = [pc EXCEPT ![f] = "dec_parse"]
       /\ UNCHANGED toast

HandleDecrypt(f) ==
  /\ toast[f] = NoToast
  /\ ButtonEnabled(f)
  /\ mode[f] = "decrypt"
  /\ DecryptGated(f, GateToast(f, "Please provide the encrypted file, password, and receiver email."))
  /\ UNCHANGED << formVars, downloads, calls, disk, rng, gcm, encLog, corrupted >>

\* handleDecrypt going on to its next await whatever the function did
DecryptAwaitedUnchecked(f, fn, r, key, next, name) ==
  /\ Log(f, Called(fn, <<>>, r, key))
  /\ Continue(f, next,
       [x \in {name} |-> IF r.ok THEN r.value
                         ELSE CryptoKey([alg |-> "raw", bytes |-> <<>>], TRUE, AesUsages)]
       @@ local[f])

\* the handler of form f goes on after a function that returned r: to the
\* await `next` with the constant `name` bound, or to its catch block
DecryptAwaited(f, fn, r, key, next, name) ==
  /\ Log(f, Called(fn, <<>>, r, key))
  /\ IF r.ok THEN Continue(f, next, [x \in {name} |-> r.value] @@ local[f])
     ELSE DecryptFailed(f, r.error)

\* the slice of the file from headerLength on
DecParsed(f, r) ==
  /\ Log(f, Called("parseMetadata", <<>>, r, NoKey))
  /\ IF r.ok
     THEN Continue(f, "dec_kp",
            [metadata |-> r.value,
             encryptedContentBlob |-> SliceFrom(file[f].bytes, r.value.headerLength)]
            @@ local[f])
     ELSE DecryptFailed(f, r.error)

\* parseMetadata, then the slice of the file from headerLength on
DecParse(f) ==
  /\ pc[f] = "dec_parse"
  /\ DecParsed(f, ParseMetadata(file[f].bytes))
  /\ UNCHANGED << formVars, downloads, disk, rng, gcm, encLog, corrupted >>

DecDeriveKp(f, fault) ==
  /\ pc[f] = "dec_kp"
  /\ DecryptAwaited(f, "deriveKeyPBKDF2",
                    DeriveKeyPBKDF2(password[f], local[f].metadata.sp, fault),
                    NoKey, "dec_ke", "kp")
  /\ UNCHANGED << formVars, downloads, disk, rng, gcm, encLog, corrupted >>

DecDeriveKe(f, fault) ==
  /\ pc[f] = "dec_ke"
  /\ DecryptAwaited(f, "deriveKeyPBKDF2",
                    DeriveKeyPBKDF2(receiverEmail[f], local[f].metadata.se, fault),
                    NoKey, "dec_km", "ke")
  /\ UNCHANGED << formVars, downloads, disk, rng, gcm, encLog, corrupted >>

DecDeriveKm(f, fault) ==
  /\ pc[f] = "dec_km"
  /\ DecryptAwaited(f, "deriveMasterKey",
                    DeriveMasterKey(local[f].kp, local[f].ke, fault),
                    NoKey, "dec_unwrap", "km")
  /\ UNCHANGED << formVars, downloads, disk, rng, gcm, encLog, corrupted >>

DecUnwrap(f, fault) ==
  /\ pc[f] = "dec_unwrap"
  /\ DecryptAwaited(f, "unwrapDataKey",
                    UnwrapDataKey(gcm, local[f].metadata.wdek, local[f].metadata.wiv,
                                  local[f].km, fault),
                    local[f].km.raw, "dec_file", "dek")
  /\ UNCHANGED << formVars, downloads, disk, rng, gcm, encLog, corrupted >>

\* handleDecrypt saving what it has before it looks at the result
DecDecryptedEager(f, r, originalFileName) ==
  /\ Log(f, Called("decryptFileStream", local[f].encryptedContentBlob, r,
                   IF r.decryptCalled THEN local[f].dek.raw ELSE NoKey))
  /\ DownloadFile(f, File(originalFileName, IF r.ok THEN r.value ELSE <<>>))
  /\ IF r.ok
     THEN Finish(f, Toast("Decryption Successful", "File recovered as",
                          originalFileName, ""))
     ELSE DecryptFailed(f, r.error)

\* handleDecrypt refusing to save a file under a name already saved
DecDecryptedOnce(f, r, originalFileName) ==
  /\ Log(f, Called("decryptFileStream", local[f].encryptedContentBlob, r,
                   IF r.decryptCalled THEN local[f].dek.raw ELSE NoKey))
  /\ IF r.ok /\ \A saved \in disk : saved.name # originalFileName
     THEN /\ DownloadFile(f, File(originalFileName, r.value))
          /\ Finish(f, Toast("Decryption Successful", "File recovered as",
                             originalFileName, ""))
     ELSE /\ DecryptFailed(f, IF r.ok THEN Error("File already saved.") ELSE r.error)
          /\ UNCHANGED << downloads, disk >>

\* downloadFile and the toast, or the catch block
DecDecrypted(f, r, originalFileName) ==
  /\ Log(f, Called("decryptFileStream", local[f].encryptedContentBlob, r,
                   IF r.decryptCalled THEN local[f].dek.raw ELSE NoKey))
  /\ IF r.ok
     THEN /\ DownloadFile(f, File(originalFileName, r.value))
          /\ Finish(f, Toast("Decryption Successful", "File recovered as",
                             originalFileName, ""))
     ELSE /\ DecryptFailed(f, r.error)
          /\ UNCHANGED << downloads, disk >>

\* decryptFileStream, then downloadFile and the toast
DecFile(f, fault) ==
  /\ pc[f] = "dec_file"
  /\ DecDecrypted(f, DecryptFileStream(gcm, local[f].encryptedContentBlob,
                                      local[f].dek, fault),
                  JsToString(local[f].metadata.fileName))
  /\ UNCHANGED << formVars, rng, gcm, encLog, corrupted >>

(***************************************************************************)
(* The files a user can select                                             *)
(***************************************************************************)
\* 'x.dyadenc'
CraftedName == <<120>> \o ENCRYPTED_FILE_EXTENSION

\* a file of the envelope layout around any metadata text
Framed(declaredLength, text, payload) ==
  File(CraftedName, MAGIC_HEADER \o Uint32LE(declaredLength) \o text \o payload)

\* hand-made inputs of handleDecrypt: the empty file, files shorter than the
\* fixed header with and without the magic, a wrong magic, and metadata
\* texts that are JSON but no Metadata: null, 5, {}, "sp" alone
CraftedFiles ==
  { File(CraftedName, <<>>),
    File(CraftedName, <<68, 89, 65>>),
    File(CraftedName, <<100, 121, 97, 100, 2, 0, 0>>),
    File(CraftedName, MAGIC_HEADER),
    File(CraftedName, MAGIC_HEADER \o <<2>>),
    File(CraftedName, MAGIC_HEADER \o <<2, 0, 0>>),
    File(CraftedName, <<100, 121, 97, 100, 2, 0, 0, 0, 123, 125>>),
    Framed(4, LitNull, <<>>),
    Framed(1, <<53>>, <<>>),
    Framed(2, <<123, 125>>, <<>>),
    Framed(1, <<123, 125>>, <<>>),
    Framed(9, <<123, 34, 115, 112, 34, 58, 34, 34, 125>>, <<>>) }

\* the envelopes the encryptions of the model produced
Envelopes == { encLog[i].envelope : i \in 1..Len(encLog) } \ {NoFile}

\* one bit of the file changed
FlipAt(bytes, i, bit) == [bytes EXCEPT ![i] = FlipBit(bytes[i], bit)]

\* the file with another length declared for its metadata
Redeclared(bytes, n) == Slice(bytes, 0, 4) \o Uint32LE(n) \o SliceFrom(bytes, 8)

\* the copies of a file that a channel or a store can hand over in its
\* place: one bit changed, the file cut short, a shorter metadata length
Corruptions(fl) ==
  { File(fl.name, FlipAt(fl.bytes, i, bit)) : i \in 1..Len(fl.bytes), bit \in 0..7 }
  \cup { File(fl.name, SubSeq(fl.bytes, 1, n)) : n \in 0..(Len(fl.bytes) - 1) }
  \cup { File(fl.name, Redeclared(fl.bytes, n)) :
           n \in 0..(GetUint32LE(Slice(fl.bytes, 0, 8)) - 1) }

\* the metadata of an envelope, the places of the characters of its "wdek"
\* property (the last of the header, before the quote and the brace), and
\* the places of its payload
MetadataOf(envelope) == ParseMetadata(envelope.bytes).value

WdekField(envelope) ==
  LET
    WdekPlaces(headerLength, base64) ==
      (headerLength - 1 - Len(base64))..(headerLength - 2)
    WdekOf(metadata) ==
      WdekPlaces(metadata.headerLength, ArrayBufferToBase64(metadata.wdek))
  IN  WdekOf(MetadataOf(envelope))

PayloadField(envelope) ==
  (MetadataOf(envelope).headerLength + 1)..Len(envelope.bytes)

\* the copies of an envelope with one bit of its wrapped-DEK field changed
WdekCorruptions(fl) ==
  { File(fl.name, FlipAt(fl.bytes, i, bit)) : i \in WdekField(fl), bit \in 0..7 }

\* the user selects a file of their own
SelectFile(f, selectedFile) ==
  /\ HandleFileChange(f, selectedFile)
  /\ UNCHANGED corrupted

\* the user selects a corrupted copy of an envelope
SelectCorrupted(f, selectedFile) ==
  /\ corrupted < MaxCorruptions
  /\ HandleFileChange(f, selectedFile)
  /\ corrupted' = corrupted + 1

(***************************************************************************)
(* Specifications                                                          *)
(***************************************************************************)
\* a step of a running handler of form f; faults: whether a SubtleCrypto
\* call may reject
Step(f, faults) ==
  \/ \E fault \in faults : EncDeriveKp(f, fault)
  \/ \E fault \in faults : EncDeriveKe(f, fault)
  \/ \E fault \in faults : EncDeriveKm(f, fault)
  \/ \E fault \in faults : EncGenerateDek(f, fault)
  \/ \E fault \in faults : EncWrap(f, fault)
  \/ \E fault \in faults : EncFile(f, fault)
  \/ DecParse(f)
  \/ \E fault \in faults : DecDeriveKp(f, fault)
  \/ \E fault \in faults : DecDeriveKe(f, fault)
  \/ \E fault \in faults : DecDeriveKm(f, fault)
  \/ \E fault \in faults : DecUnwrap(f, fault)
  \/ \E fault \in faults : DecFile(f, fault)

\* what the user of form f does but select a file
User(f, passwords, emails) ==
  \/ \E value \in passwords : SetPassword(f, value)
  \/ \E value \in emails : SetReceiverEmail(f, value)
  \/ HandleEncrypt(f)
  \/ HandleDecrypt(f)
  \/ DismissToast(f)

\* the user of form f selects a plain file, a saved file or none
Select(f) ==
  \E selectedFile \in PlainFiles \cup disk \cup {NoFile} : SelectFile(f, selectedFile)

\* the user of form f selects a hand-made file
SelectCrafted(f) ==
  \E selectedFile \in CraftedFiles : SelectFile(f, selectedFile)

\* the user of form f is handed a corrupted copy of an envelope
Tamper(f) ==
  /\ corrupted < MaxCorruptions
  /\ Quiet(f)
  /\ \E e \in Envelopes : \E c \in Corruptions(e) : SelectCorrupted(f, c)

\* the user of form f is handed a copy of an envelope whose wrapped-DEK
\* field is corrupted
TamperWdek(f) ==
  /\ corrupted < MaxCorruptions
  /\ Quiet(f)
  /\ \E e \in Envelopes : \E c \in WdekCorruptions(e) : SelectCorrupted(f, c)

\* one form, a working provider, the user's own files
Next ==
  \/ User(1, Passwords, Emails)
  \/ Select(1)
  \/ SelectCrafted(1)
  \/ Step(1, {FALSE})

Spec == Init /\ [][Next]_vars

\* one form, a provider whose calls may reject
NextFault ==
  \/ User(1, Passwords, Emails)
  \/ Select(1)
  \/ SelectCrafted(1)
  \/ Step(1, BOOLEAN)

SpecFault == Init /\ [][NextFault]_vars

\* 'correcthorse' and 'a@b.com'
ScenarioPassword == <<99, 111, 114, 114, 101, 99, 116, 104, 111, 114, 115, 101>>
ScenarioEmail == <<97, 64, 98, 46, 99, 111, 109>>

\* one form, a working provider, the secrets of the scenario, and corrupted
\* copies of the envelopes
NextTamper ==
  \/ User(1, {ScenarioPassword}, {ScenarioEmail})
  \/ Select(1)
  \/ Tamper(1)
  \/ Step(1, {FALSE})

SpecTamper == Init /\ [][NextTamper]_vars

\* one form, a working provider, two passwords and two emails, each right
\* for some envelopes and wrong for the others, and copies of the envelopes
\* whose wrapped-DEK field is corrupted
NextOracle ==
  \/ User(1, {ScenarioPassword, ScenarioEmail}, {ScenarioEmail, ScenarioPassword})
  \/ Select(1)
  \/ TamperWdek(1)
  \/ Step(1, {FALSE})

SpecOracle == Init /\ [][NextOracle]_vars

(***************************************************************************)
(* The kinds of failure.  The code throws plain Errors; the kind of one is *)
(* the condition it reports: FormatError for a magic mismatch or malformed *)
(* metadata JSON, IntegrityError for a wrong salt or IV length, a payload  *)
(* under the minimum or a payload tag failure, AuthenticationError for a   *)
(* failed unwrap.  Every other error is of no kind.                        *)
(***************************************************************************)
ErrorKind(error) ==
  IF error \in {MagicMismatchError, JsonParsingError} THEN "FormatError"
  ELSE IF error \in {SaltLengthError, IvLengthError, TooShortError,
                     PayloadIntegrityError} THEN "IntegrityError"
  ELSE IF error = AuthenticationFailedError THEN "AuthenticationError"
  ELSE "Unclassified"

\* the kind of the failure a toast reports
MessageKind(message) == ErrorKind(Error(message))

Kinds == {"FormatError", "IntegrityError", "AuthenticationError"}

(***************************************************************************)
(* What the properties observe                                             *)
(***************************************************************************)
\* the last invocation of form f was a decryption that ran to its end
DecryptionEnded(f) ==
  pc[f] = "idle" /\ toast[f].title \in {"Decryption Successful", "Decryption Failed"}

DecryptionFailedWith(f, kind) ==
  /\ pc[f] = "idle"
  /\ toast[f].title = "Decryption Failed"
  /\ MessageKind(toast[f].description) = kind

\* the i-th encryption produced its envelope
Sealed(i) == encLog[i].envelope # NoFile

\* form f holds the envelope of the i-th encryption
HoldsEnvelope(f, i) == Sealed(i) /\ file[f] = encLog[i].envelope

RightSecrets(f, i) ==
  password[f] = encLog[i].password /\ receiverEmail[f] = encLog[i].email

\* the bytes c are the bytes e but for one bit, at one of `places`
OneBitIn(c, e, places) ==
  /\ Len(c) = Len(e)
  /\ \E i \in places : \E bit \in 0..7 : c = FlipAt(e, i, bit)

\* the calls of fn that form f's last invocation made
CallsOf(f, fn) == { i \in 1..Len(calls[f]) : calls[f][i].fn = fn }

(***************************************************************************)
(* Properties                                                              *)
(***************************************************************************)
\* C1: a decryption of an envelope with the password and the email it was
\* encrypted with succeeds and saves exactly the bytes of the file that was
\* encrypted (the empty file included).
RoundTrip ==
  \A f \in Forms : \A i \in 1..Len(encLog) :
    (HoldsEnvelope(f, i) /\ RightSecrets(f, i) /\ DecryptionEnded(f)) =>
      /\ toast[f].title = "Decryption Successful"
      /\ Len(downloads[f]) = 1
      /\ downloads[f][1].bytes = encLog[i].file.bytes
      /\ \A k \in 1..Len(calls[f]) : calls[f][k].ok

\* C1 witness: the envelope of the empty file, encrypted under a password
\* of 7 characters or more, was decrypted with the same secrets.
RoundTripReached ==
  \E f \in Forms : \E i \in 1..Len(encLog) :
    /\ HoldsEnvelope(f, i) /\ RightSecrets(f, i) /\ DecryptionEnded(f)
    /\ encLog[i].file.bytes = <<>>
    /\ Len(encLog[i].password) >= MIN_PASSWORD_LENGTH
    /\ downloads[f] # <<>>

\* C2: a decryption of an envelope with another email or another password
\* than it was encrypted with ends in an AuthenticationError, and saves no
\* file at any point.
WrongSecretRejected ==
  \A f \in Forms : \A i \in 1..Len(encLog) :
    (HoldsEnvelope(f, i) /\ ~RightSecrets(f, i)) =>
      /\ downloads[f] = <<>>
      /\ DecryptionEnded(f) => DecryptionFailedWith(f, "AuthenticationError")

\* C2 witness: a decryption with the right password and another email has
\* ended.
WrongEmailReached ==
  \E f \in Forms : \E i \in 1..Len(encLog) :
    /\ HoldsEnvelope(f, i)
    /\ password[f] = encLog[i].password
    /\ receiverEmail[f] # encLog[i].email
    /\ DecryptionEnded(f)

\* form f holds a copy of the envelope of the i-th encryption that differs
\* from it by one bit of its wrapped-DEK field
HoldsCorruptedWdek(f, i) ==
  /\ Sealed(i)
  /\ file[f].exists
  /\ OneBitIn(file[f].bytes, encLog[i].envelope.bytes, WdekField(encLog[i].envelope))

\* the last invocation of form f parsed the metadata of its file
WellFormed(f) ==
  \E k \in CallsOf(f, "parseMetadata") : calls[f][k].ok

\* C3: a decryption of a well-formed envelope that fails fails with one and
\* the same toast whether the password is wrong, the email is wrong, both
\* are wrong, or both are right and the wrapped-DEK field is corrupted.
NoFactorOracle ==
  \A f \in Forms : \A i \in 1..Len(encLog) :
    ( /\ DecryptionEnded(f)
      /\ WellFormed(f)
      /\ \/ HoldsEnvelope(f, i) /\ ~RightSecrets(f, i)
         \/ HoldsCorruptedWdek(f, i) ) =>
      toast[f] = Toast("Decryption Failed", AuthenticationFailedError.message,
                       <<>>, "destructive")

\* C3 witness: a decryption with the right secrets of a well-formed
\* envelope whose wrapped-DEK field is corrupted has ended.
CorruptedWdekReached ==
  \E f \in Forms : \E i \in 1..Len(encLog) :
    /\ DecryptionEnded(f)
    /\ WellFormed(f)
    /\ HoldsCorruptedWdek(f, i)
    /\ RightSecrets(f, i)

\* C4: decryptFileStream is called only right after an unwrapDataKey that
\* returned; after an unwrapDataKey that threw nothing is called and nothing
\* saved; and a file is saved only when decryptFileStream, reaching the AEAD
\* under the unwrapped key, returned as well.
UnwrapBeforePayload ==
  \A f \in Forms :
    /\ \A k \in CallsOf(f, "decryptFileStream") :
         k > 1 /\ calls[f][k - 1].fn = "unwrapDataKey" /\ calls[f][k - 1].ok
    /\ \A k \in CallsOf(f, "unwrapDataKey") :
         ~calls[f][k].ok => (k = Len(calls[f]) /\ downloads[f] = <<>>)
    /\ (CallsOf(f, "unwrapDataKey") # {} /\ downloads[f] # <<>>) =>
         \E k \in CallsOf(f, "decryptFileStream") :
           /\ calls[f][k].ok
           /\ calls[f][k].key # NoKey
           /\ calls[f][k].key # calls[f][k - 1].key

\* C4 witness: unwrapDataKey returned and decryptFileStream's own tag check
\* then failed.
PayloadCheckedAfterUnwrap ==
  \E f \in Forms : \E k \in CallsOf(f, "decryptFileStream") :
    /\ calls[f][k - 1].fn = "unwrapDataKey" /\ calls[f][k - 1].ok
    /\ ~calls[f][k].ok
    /\ calls[f][k].key # NoKey

\* C5: with the right secrets, a decryption of a copy of an envelope that
\* differs from it by one bit of the payload ends in an IntegrityError, and
\* of one that differs by one bit of the wrapped-DEK field in an
\* AuthenticationError.
TamperSensitive ==
  \A f \in Forms : \A i \in 1..Len(encLog) :
    (Sealed(i) /\ RightSecrets(f, i) /\ DecryptionEnded(f) /\ file[f].exists) =>
      /\ OneBitIn(file[f].bytes, encLog[i].envelope.bytes,
                  PayloadField(encLog[i].envelope))
           => DecryptionFailedWith(f, "IntegrityError")
      /\ OneBitIn(file[f].bytes, encLog[i].envelope.bytes,
                  WdekField(encLog[i].envelope))
           => DecryptionFailedWith(f, "AuthenticationError")

\* the steps of the two pipelines, in order
EncryptSteps ==
  << "generateSalt", "generateSalt", "deriveKeyPBKDF2", "deriveKeyPBKDF2",
     "deriveMasterKey", "generateDataEncryptionKey", "wrapDataKey",
     "encryptFileStream" >>
DecryptSteps ==
  << "parseMetadata", "deriveKeyPBKDF2", "deriveKeyPBKDF2", "deriveMasterKey",
     "unwrapDataKey", "decryptFileStream" >>

\* C6: an invocation saves at most one file, and saves it only when every
\* step of its pipeline was called and returned; an invocation in which a
\* step threw has ended and saved nothing.
FailureAtomic ==
  \A f \in Forms :
    /\ Len(downloads[f]) <= 1
    /\ downloads[f] # <<>> =>
         /\ pc[f] = "idle"
         /\ toast[f].title \in {"Encryption Successful", "Decryption Successful"}
         /\ \A k \in 1..Len(calls[f]) : calls[f][k].ok
         /\ [k \in 1..Len(calls[f]) |-> calls[f][k].fn] \in {EncryptSteps, DecryptSteps}
    /\ (\E k \in 1..Len(calls[f]) : ~calls[f][k].ok) =>
         /\ downloads[f] = <<>>
         /\ pc[f] = "idle"
         /\ toast[f].title \in {"Encryption Failed", "Decryption Failed"}
         /\ \A k \in 1..(Len(calls[f]) - 1) : calls[f][k].ok

\* C6 witness: an encryption whose wrapDataKey threw has ended.
WrapFailureReached ==
  \E f \in Forms :
    /\ calls[f] # <<>>
    /\ calls[f][Len(calls[f])].fn = "wrapDataKey"
    /\ ~calls[f][Len(calls[f])].ok

\* C7: every failure an invocation ends in is a FormatError, an
\* IntegrityError or an AuthenticationError.
FailuresClassified ==
  \A f \in Forms :
    (pc[f] = "idle" /\ toast[f].title \in {"Encryption Failed", "Decryption Failed"}) =>
      MessageKind(toast[f].description) \in Kinds

\* the metadata text parseMetadata reads from the bytes
MetadataRead(bytes) == Slice(bytes, 8, 8 + GetUint32LE(Slice(bytes, 0, 8)))

\* the bytes declare a metadata length, and the metadata read from them is
\* the metadata JSON of an envelope cut short
TruncatedJson(bytes) ==
  /\ Len(bytes) >= 8
  /\ \E e \in Envelopes :
       LET full == MetadataRead(e.bytes)
           read == MetadataRead(bytes)
       IN  Len(read) < Len(full) /\ read = SubSeq(full, 1, Len(read))

\* C8: parseMetadata throws a FormatError on a file whose first four bytes
\* are not "DYAD", and on a file with the magic whose metadata JSON is cut
\* short, by the declared length or by the end of the file.
FormatRejected ==
  \A f \in Forms : \A k \in CallsOf(f, "parseMetadata") :
    (~MagicMatches(Slice(file[f].bytes, 0, 4)) \/ TruncatedJson(file[f].bytes)) =>
      ~calls[f][k].ok /\ ErrorKind(calls[f][k].error) = "FormatError"

\* C8 witness: parseMetadata was called on a whole envelope but for a
\* declared length that cuts its metadata JSON short.
TruncatedJsonReached ==
  \E f \in Forms : \E k \in CallsOf(f, "parseMetadata") : \E e \in Envelopes :
    /\ MagicMatches(Slice(file[f].bytes, 0, 4))
    /\ TruncatedJson(file[f].bytes)
    /\ Len(file[f].bytes) = Len(e.bytes)

\* C9: parseMetadata throws a FormatError on a file of fewer than 8 bytes.
ShortHeaderRejected ==
  \A f \in Forms : \A k \in CallsOf(f, "parseMetadata") :
    Len(file[f].bytes) < 8 =>
      ~calls[f][k].ok /\ ErrorKind(calls[f][k].error) = "FormatError"

\* C10: decryptFileStream on fewer than 28 bytes throws an IntegrityError
\* without reaching the AEAD; on 28 bytes or more it reaches the AEAD.
MinimumPayload ==
  \A f \in Forms : \A k \in CallsOf(f, "decryptFileStream") :
    IF Len(calls[f][k].arg) < AES_IV_LENGTH + AES_TAG_LENGTH
    THEN /\ ~calls[f][k].ok
         /\ ErrorKind(calls[f][k].error) = "IntegrityError"
         /\ calls[f][k].key = NoKey
    ELSE /\ calls[f][k].key # NoKey
         /\ calls[f][k].error # TooShortError

\* C10 witness: decryptFileStream was called on 27 bytes.
ShortPayloadReached ==
  \E f \in Forms : \E k \in CallsOf(f, "decryptFileStream") :
    Len(calls[f][k].arg) = AES_IV_LENGTH + AES_TAG_LENGTH - 1


(***************************************************************************)
(* Headers packed by hand                                                  *)
(***************************************************************************)
\* the arguments of packageMetadata and the payloads put after the header
\* it returns: three file names, two salts and two IVs, three wrapped keys
\* and three payloads; and salts and IVs of other lengths than 16 and 12
PackedCases ==
  LET
    \* byte strings of n bytes
    BytesA(n) == [i \in 1..n |-> (17 * i) % 256]
    BytesB(n) == [i \in 1..n |-> (255 - 3 * i) % 256]

    \* 'h.txt', the empty name, and a name of a quote, a backslash, an
    \* e acute and a line feed
    PackedNames == { <<104, 46, 116, 120, 116>>, <<>>, <<34, 92, 233, 10>> }

    \* payloads: none, five bytes that read like a header, 28 bytes
    PackedPayloads == { <<>>, <<68, 89, 65, 68, 125>>, BytesA(28) }

    PackedCase(fileName, sp, se, wiv, wdek, payload) ==
      [fileName |-> fileName, sp |-> sp, se |-> se, wiv |-> wiv,
       wdek |-> wdek, payload |-> payload]
  IN
    { PackedCase(fileName, sp, se, wiv, wdek, payload) :
        fileName \in PackedNames,
        sp \in {BytesA(SALT_LENGTH), BytesB(SALT_LENGTH)},
        se \in {BytesA(SALT_LENGTH), BytesB(SALT_LENGTH)},
        wiv \in {BytesA(AES_IV_LENGTH), BytesB(AES_IV_LENGTH)},
        wdek \in {<<>>, BytesB(1), BytesA(48)},
        payload \in PackedPayloads }
    \cup
    { PackedCase(<<104, 46, 116, 120, 116>>, BytesA(spLength), BytesB(seLength),
                 BytesA(wivLength), BytesA(48), BytesA(28)) :
        spLength \in {0, 15, 16, 17}, seLength \in {0, 15, 16, 17},
        wivLength \in {0, 11, 12, 13, 16} }

\* packageMetadata on the arguments, and the payload after the header
PackedFile ==
  [c \in PackedCases |->
     File(CraftedName,
          PackageMetadata(c.fileName, c.sp, c.se, c.wiv, c.wdek) \o c.payload)]

\* the user of form f selects a file with a header packed by hand
SelectPacked(f) ==
  \E c \in PackedCases : SelectFile(f, PackedFile[c])

\* one form, a working provider, the secrets of the scenario, the user's
\* own files and files with a header packed by hand
NextCodec ==
  \/ User(1, {ScenarioPassword}, {ScenarioEmail})
  \/ Select(1)
  \/ SelectPacked(1)
  \/ Step(1, {FALSE})

SpecCodec == Init /\ [][NextCodec]_vars

(***************************************************************************)
(* The two forms of the page, side by side                                 *)
(***************************************************************************)
\* the user of form f selects 'h.txt' or a saved file
SelectOwn(f) ==
  \E selectedFile \in {File(<<104, 46, 116, 120, 116>>, <<104, 101, 108, 108, 111>>)} \cup disk :
    SelectFile(f, selectedFile)

\* the user of form f selects the file that is selected in the other form
SelectSame(f) ==
  \E g \in Forms \ {f} : file[g].exists /\ SelectFile(f, file[g])

\* three copies of an envelope with one bit changed: in the magic, in the
\* last character of the wrapped-DEK field (two before the end of the
\* header) and in the tag of the payload
BitCorruptions(fl) ==
  { File(fl.name, FlipAt(fl.bytes, i, 0)) :
      i \in {1, 8 + GetUint32LE(Slice(fl.bytes, 0, 8)) - 2, Len(fl.bytes)} }

\* the user of form f is handed one of the three
TamperBit(f) ==
  /\ corrupted < MaxCorruptions
  /\ Quiet(f)
  /\ \E e \in Envelopes : \E c \in BitCorruptions(e) : SelectCorrupted(f, c)

\* both forms, a working provider, the same secrets in both: the handlers of
\* the two forms interleave at their awaits
NextTwin ==
  \/ User(1, {ScenarioPassword}, {ScenarioEmail})
  \/ User(2, {ScenarioPassword}, {ScenarioEmail})
  \/ SelectOwn(1)
  \/ SelectOwn(2)
  \/ Step(1, {FALSE})
  \/ Step(2, {FALSE})

SpecTwin == Init /\ [][NextTwin]_vars

\* ... and with the secrets of the scenario in the first form and other
\* secrets in the second
NextPair ==
  \/ User(1, {ScenarioPassword}, {ScenarioEmail})
  \/ User(2, {ScenarioEmail}, {ScenarioPassword})
  \/ SelectOwn(1)
  \/ SelectOwn(2)
  \/ Step(1, {FALSE})
  \/ Step(2, {FALSE})

SpecPair == Init /\ [][NextPair]_vars

\* both forms, a working provider, the secrets of the scenario: what is
\* selected in the first form, a corrupted copy of an envelope too, is
\* selected in the second form as well
NextRerun ==
  \/ User(1, {ScenarioPassword}, {ScenarioEmail})
  \/ User(2, {ScenarioPassword}, {ScenarioEmail})
  \/ SelectOwn(1)
  \/ TamperBit(1)
  \/ SelectSame(2)
  \/ Step(1, {FALSE})
  \/ Step(2, {FALSE})

SpecRerun == Init /\ [][NextRerun]_vars


(***************************************************************************)
(* Envelopes with a forged header                                          *)
(***************************************************************************)
\* the copies of an envelope with one property of its header replaced and
\* the header packed anew: a salt or the wrapping IV by another value of its
\* length (one bit changed, the other salt, the payload's IV), the file
\* name by another name ('x' before it, or none at all)
ForgedOf(fl) ==
  LET
    Forged(metadata, payload, field, fileName, sp, se, wiv) ==
      [field |-> field,
       name |-> fileName,
       file |-> File(fl.name,
                     PackageMetadata(fileName, sp, se, wiv, metadata.wdek) \o payload)]

    ForgedNamed(metadata, payload, name) ==
      { Forged(metadata, payload, "sp", name, sp, metadata.se, metadata.wiv) :
          sp \in {FlipAt(metadata.sp, 1, 0), metadata.se} }
      \cup { Forged(metadata, payload, "se", name, metadata.sp, se, metadata.wiv) :
          se \in {FlipAt(metadata.se, SALT_LENGTH, 7), metadata.sp} }
      \cup { Forged(metadata, payload, "wiv", name, metadata.sp, metadata.se, wiv) :
          wiv \in {FlipAt(metadata.wiv, 1, 0), Slice(payload, 0, AES_IV_LENGTH)} }
      \cup { Forged(metadata, payload, "fileName", fileName, metadata.sp,
                    metadata.se, metadata.wiv) :
          fileName \in {<<120>> \o name, <<>>} }

    ForgedFrom(metadata) ==
      ForgedNamed(metadata, SliceFrom(fl.bytes, metadata.headerLength),
                  JsToString(metadata.fileName))
  IN  ForgedFrom(MetadataOf(fl))

\* the user of form f is handed an envelope with a forged header
TamperHeader(f) ==
  /\ corrupted < MaxCorruptions
  /\ Quiet(f)
  /\ \E e \in Envelopes : \E x \in ForgedOf(e) : SelectCorrupted(f, x.file)

\* one form, a working provider, the secrets of the scenario, and envelopes
\* with a forged header
NextHeader ==
  \/ User(1, {ScenarioPassword}, {ScenarioEmail})
  \/ Select(1)
  \/ TamperHeader(1)
  \/ Step(1, {FALSE})

SpecHeader == Init /\ [][NextHeader]_vars

\* the promise the running handler of form f awaits settles and the handler
\* is resumed: it goes on to its next await or it ends
Resumed(f) ==
  /\ pc[f] # "idle"
  /\ \E next \in {"idle", "enc_ke", "enc_km", "enc_dek", "enc_wrap", "enc_file",
                  "dec_kp", "dec_ke", "dec_km", "dec_unwrap", "dec_file"} :
       pc' = [pc EXCEPT ![f] = next]

\* one form and a provider whose calls may reject.  Every promise a handler
\* awaits settles, fulfilled or rejected, and the event loop runs the
\* handler's continuation: a running handler does not stay at one await for
\* ever.  (The steps of [NextFault]_vars that change pc[1] of a running
\* handler are those of Step(1, BOOLEAN), one of which is enabled at every
\* await.)
SpecLoading == Init /\ [][NextFault]_vars /\ WF_pc(Resumed(1))

\* files by name: 'h.txt', 'x.dyadenc', '.dyadenc', 'x.DYADENC', 'dyadenc',
\* 'x.dyadenc.txt' and the empty name
NamedFiles ==
  { File(name, <<104, 101, 108, 108, 111>>) :
      name \in { <<104, 46, 116, 120, 116>>,
                 CraftedName,
                 ENCRYPTED_FILE_EXTENSION,
                 <<120, 46, 68, 89, 65, 68, 69, 78, 67>>,
                 <<100, 121, 97, 100, 101, 110, 99>>,
                 CraftedName \o <<46, 116, 120, 116>>,
                 <<>> } }

\* the user of form f selects a file by its name, or none
SelectNamed(f) ==
  \E selectedFile \in NamedFiles \cup {NoFile} : SelectFile(f, selectedFile)

\* the two forms of the page, one of each defaultMode: files selected and
\* cleared, passwords and emails typed
NextMode ==
  \/ SelectNamed(1)
  \/ SelectNamed(2)
  \/ \E value \in {<<>>, ScenarioPassword} : SetPassword(1, value)
  \/ \E value \in {<<>>, ScenarioEmail} : SetReceiverEmail(2, value)

SpecMode == Init /\ [][NextMode]_vars

\* the running handler of form f holds the metadata parseMetadata returned
HasMetadata(f) == "metadata" \in DOMAIN local[f]

\* form f holds the file packed from the arguments c, and has called
\* parseMetadata on it
ParsedPacked(f, c) == file[f] = PackedFile[c] /\ CallsOf(f, "parseMetadata") # {}

RightLengths(c) ==
  Len(c.sp) = SALT_LENGTH /\ Len(c.se) = SALT_LENGTH /\ Len(c.wiv) = AES_IV_LENGTH

\* the arguments with salts of 16 bytes and an IV of 12
ValidCases == { c \in PackedCases : RightLengths(c) }

\* C11: the metadata parseMetadata returns has salts of 16 bytes and a
\* wrapping IV of 12 bytes; on a header packed with a salt or a wrapping IV
\* of another length parseMetadata throws an IntegrityError, the handler
\* gets no metadata and calls nothing more; on one packed with the right
\* lengths it returns.
HeaderLengthsChecked ==
  \A f \in Forms :
    /\ HasMetadata(f) =>
         /\ Len(local[f].metadata.sp) = SALT_LENGTH
         /\ Len(local[f].metadata.se) = SALT_LENGTH
         /\ Len(local[f].metadata.wiv) = AES_IV_LENGTH
    /\ \A c \in PackedCases : \A k \in CallsOf(f, "parseMetadata") :
         file[f] = PackedFile[c] =>
           IF RightLengths(c) THEN calls[f][k].ok
           ELSE /\ ~calls[f][k].ok
                /\ ErrorKind(calls[f][k].error) = "IntegrityError"
                /\ k = Len(calls[f])
                /\ ~HasMetadata(f)
                /\ pc[f] = "idle"

\* C11 witness: parseMetadata was called on a header packed with salts of 16
\* bytes and a wrapping IV of 16 bytes.
WrongIvLengthReached ==
  \E f \in Forms : \E c \in PackedCases :
    /\ ParsedPacked(f, c)
    /\ Len(c.sp) = SALT_LENGTH /\ Len(c.se) = SALT_LENGTH /\ Len(c.wiv) = 16

\* C12: on the header packageMetadata made of a file name, salts of 16
\* bytes, a wrapping IV of 12 bytes and a wrapped key, followed by any
\* payload, parseMetadata returns the same file name, salts, IV and wrapped
\* key, and a headerLength that is the length of the header: the slice
\* handleDecrypt takes from it on is the payload.
HeaderRoundTrip ==
  \A f \in Forms : \A c \in ValidCases :
    ParsedPacked(f, c) =>
      /\ \A k \in CallsOf(f, "parseMetadata") : calls[f][k].ok
      /\ pc[f] # "idle" =>
           /\ HasMetadata(f)
           /\ local[f].metadata.fileName = JsonValue("str", c.fileName)
           /\ local[f].metadata.sp = c.sp
           /\ local[f].metadata.se = c.se
           /\ local[f].metadata.wiv = c.wiv
           /\ local[f].metadata.wdek = c.wdek
           /\ local[f].metadata.headerLength = Len(file[f].bytes) - Len(c.payload)
           /\ local[f].metadata.headerLength =
                8 + GetUint32LE(Slice(file[f].bytes, 0, 8))
           /\ local[f].encryptedContentBlob = c.payload

\* C12 witness: parseMetadata returned on a header packed with a file name
\* of characters JSON escapes, an empty wrapped key and a payload that reads
\* like a header.
PackedParsedReached ==
  \E f \in Forms : \E c \in ValidCases :
    /\ ParsedPacked(f, c)
    /\ HasMetadata(f)
    /\ c.fileName = <<34, 92, 233, 10>>
    /\ c.wdek = <<>>
    /\ c.payload = <<68, 89, 65, 68, 125>>

\* the payload is the IV, the ciphertext and the tag of an encryption of
\* the plaintext under a generated key
PayloadOf(payload, plaintext) ==
  /\ Len(payload) = AES_IV_LENGTH + Len(plaintext) + AES_TAG_LENGTH
  /\ \E k \in 1..Len(gcm) :
       /\ gcm[k].key.alg = "raw"
       /\ gcm[k].pt = plaintext
       /\ Slice(payload, 0, AES_IV_LENGTH) = gcm[k].iv
       /\ SliceFrom(payload, AES_IV_LENGTH) = Cipher(k, Len(plaintext))

\* the bytes are the magic, n as a little-endian uint32, a JSON object of
\* exactly n bytes with the five properties of Metadata, and the payload of
\* the plaintext
LaidOut(bytes, n, plaintext) ==
  /\ Slice(bytes, 0, 4) = MAGIC_HEADER
  /\ Slice(bytes, 4, 8) = Uint32LE(n)
  /\ Len(bytes) = 8 + n + 28 + Len(plaintext)
  /\ bytes[9] = 123 /\ bytes[8 + n] = 125
  /\ JSONParse(TextDecode(Slice(bytes, 8, 8 + n))).ok
  /\ \A key \in {KeyFileName, KeySp, KeySe, KeyWiv, KeyWdek} :
       GetProperty(JSONParse(TextDecode(Slice(bytes, 8, 8 + n))).val, key).t = "str"
  /\ PayloadOf(SliceFrom(bytes, 8 + n), plaintext)

\* C13: every envelope an encryption saved is "DYAD", N as a little-endian
\* uint32, the metadata JSON of exactly N bytes, and the payload: the IV of
\* 12 bytes, the ciphertext of the file's length L and the tag of 16 bytes;
\* 8 + N + 28 + L bytes in all.
EnvelopeLayout ==
  \A i \in 1..Len(encLog) :
    Sealed(i) =>
      LaidOut(encLog[i].envelope.bytes,
              GetUint32LE(Slice(encLog[i].envelope.bytes, 0, 8)),
              encLog[i].file.bytes)

\* C13 witness: the envelope of 'hello' (L = 5) was saved.
HelloSealedReached ==
  \E i \in 1..Len(encLog) :
    /\ Sealed(i)
    /\ encLog[i].file.bytes = <<104, 101, 108, 108, 111>>
    /\ encLog[i].envelope \in disk

\* what an encryption drew, as its envelope shows it: the salts, the
\* wrapping IV and the wrapped key of the metadata, and the payload IV
DrawnIn(metadata, bytes) ==
  [sp |-> metadata.sp, se |-> metadata.se, wiv |-> metadata.wiv,
   wdek |-> metadata.wdek,
   iv |-> Slice(bytes, metadata.headerLength, metadata.headerLength + AES_IV_LENGTH)]

Drawn(i) == DrawnIn(MetadataOf(encLog[i].envelope), encLog[i].envelope.bytes)

\* the key that the wrapped key wdek wraps
WrappedIn(wdek) ==
  { gcm[k].pt : k \in { n \in 1..Len(gcm) :
      gcm[n].key.alg = "HKDF" /\ Cipher(n, Len(gcm[n].pt)) = wdek } }

FreshPair(a, b) ==
  /\ {a.sp, a.se} \cap {b.sp, b.se} = {}
  /\ {a.wiv, a.iv} \cap {b.wiv, b.iv} = {}
  /\ a.wdek # b.wdek
  /\ WrappedIn(a.wdek) \cap WrappedIn(b.wdek) = {}
  /\ a.sp # a.se /\ a.wiv # a.iv
  /\ b.sp # b.se /\ b.wiv # b.iv

\* C14: any two encryptions, also of the same file under the same password
\* and email, differ in their password salt, email salt, wrapping IV,
\* payload IV, wrapped key and DEK; no salt or IV of one is a salt or IV of
\* the other.
Freshness ==
  \A i \in 1..Len(encLog) : \A j \in 1..Len(encLog) :
    (i < j /\ Sealed(i) /\ Sealed(j)) => FreshPair(Drawn(i), Drawn(j))

\* C14 witness: two encryptions of the same file under the same password
\* and email saved their envelopes.
TwinEnvelopesReached ==
  \E i \in 1..Len(encLog) : \E j \in 1..Len(encLog) :
    /\ i < j /\ Sealed(i) /\ Sealed(j)
    /\ encLog[i].file = encLog[j].file
    /\ encLog[i].password = encLog[j].password
    /\ encLog[i].email = encLog[j].email

\* the bytes t are somewhere in the bytes s
Contains(s, t) ==
  \E p \in 0..(Len(s) - Len(t)) : SubSeq(s, p + 1, p + Len(t)) = t

\* the keys generated so far, as the provider saw them in use
GeneratedKeys == { gcm[k].key.bytes : k \in { n \in 1..Len(gcm) : gcm[n].key.alg = "raw" } }

\* the envelope of a file, with the metadata parsed from it: the header is
\* the five properties and nothing else, the wrapped key is a ciphertext and
\* tag under a derived key and wraps the key of the payload, and no
\* generated key is in the bytes, raw or as base64 text
DekWrapped(plain, envelope, metadata) ==
  /\ envelope.bytes =
       PackageMetadata(plain.name, metadata.sp, metadata.se, metadata.wiv,
                       metadata.wdek)
       \o SliceFrom(envelope.bytes, metadata.headerLength)
  /\ Len(metadata.wdek) = AES_KEY_LENGTH \div 8 + AES_TAG_LENGTH
  /\ \E dek \in WrappedIn(metadata.wdek) :
       /\ dek \in GeneratedKeys
       /\ \E k \in 1..Len(gcm) :
            /\ gcm[k].key = [alg |-> "raw", bytes |-> dek]
            /\ gcm[k].pt = plain.bytes
            /\ SliceFrom(envelope.bytes, metadata.headerLength)
                 = gcm[k].iv \o Cipher(k, Len(plain.bytes))
  /\ \A dek \in GeneratedKeys :
       /\ ~Contains(envelope.bytes, dek)
       /\ ~Contains(envelope.bytes, ArrayBufferToBase64(dek))

\* C15: every envelope saved is the header of fileName, sp, se, wiv and
\* wdek and the payload, where wdek is the DEK encrypted under the master
\* key; the raw DEK is nowhere in it, and no file but the envelope and no
\* toast but the one naming it comes out of an encryption.
DekNeverPlain ==
  /\ \A i \in 1..Len(encLog) :
       Sealed(i) =>
         DekWrapped(encLog[i].file, encLog[i].envelope, MetadataOf(encLog[i].envelope))
  /\ \A f \in Forms :
       local[f].op = "encrypt" \/ toast[f].title = "Encryption Successful" =>
         /\ \A k \in 1..Len(downloads[f]) : downloads[f][k] \in Envelopes
         /\ toast[f].arg \in {<<>>} \cup { e.name : e \in Envelopes }

\* C15 witness: an encryption saved an envelope whose wrapped key is the 48
\* bytes of a wrapped DEK.
WrappedDekReached ==
  \E i \in 1..Len(encLog) :
    /\ Sealed(i)
    /\ encLog[i].envelope \in disk
    /\ Len(MetadataOf(encLog[i].envelope).wdek) = 48
    /\ WrappedIn(MetadataOf(encLog[i].envelope).wdek) # {}

\* the bytes are a key drawn from the random source
IsGeneratedKey(bytes) ==
  \E r \in 0..rng : bytes = RandomBytes(AES_KEY_LENGTH \div 8, r)

\* C16: the key of every wrapDataKey and unwrapDataKey is the master key
\* (the HKDF of the two stretched keys) and what it encrypts is a generated
\* DEK; the key of every encryptFileStream and decryptFileStream is a DEK,
\* never the master key or a stretched key, and what it encrypts is the
\* file.
KeySeparation ==
  /\ \A f \in Forms : \A k \in 1..Len(calls[f]) :
       /\ calls[f][k].fn \in {"wrapDataKey", "unwrapDataKey"} =>
            /\ calls[f][k].key.alg = "HKDF"
            /\ calls[f][k].key.ikm[1].alg = "PBKDF2"
            /\ calls[f][k].key.ikm[2].alg = "PBKDF2"
       /\ calls[f][k].fn \in {"encryptFileStream", "decryptFileStream"} =>
            \/ calls[f][k].key = NoKey
            \/ calls[f][k].key.alg = "raw"
  /\ \A k \in 1..Len(gcm) :
       IF gcm[k].key.alg = "HKDF"
       THEN IsGeneratedKey(gcm[k].pt)
       ELSE /\ gcm[k].key.alg = "raw"
            /\ IsGeneratedKey(gcm[k].key.bytes)
            /\ \E i \in 1..Len(encLog) : gcm[k].pt = encLog[i].file.bytes

\* C16 witness: a decryption that unwrapped the DEK under the master key and
\* decrypted the payload under the DEK has ended.
BothKeysUsedReached ==
  \E f \in Forms : \E k \in CallsOf(f, "decryptFileStream") :
    /\ pc[f] = "idle"
    /\ calls[f][k].ok
    /\ calls[f][k].key.alg = "raw"
    /\ calls[f][k - 1].fn = "unwrapDataKey"
    /\ calls[f][k - 1].key.alg = "HKDF"
    /\ Len(gcm) = 2

\* the salt the running handler of form f stretches the password with
PasswordSalt(f) ==
  IF local[f].op = "encrypt" THEN local[f].sp ELSE local[f].metadata.sp

SameInputs(f, g) ==
  /\ file[f] = file[g]
  /\ password[f] = password[g]
  /\ receiverEmail[f] = receiverEmail[g]

InputsComplete(f) ==
  /\ file[f].exists
  /\ Len(receiverEmail[f]) > 0
  /\ Len(password[f]) >= MIN_PASSWORD_LENGTH

\* C18: a handler is loading, awaits, has called a function or has saved a
\* file only with a file, an email and a password of 7 characters or more;
\* an invocation with less ends in the toast of its early return, not
\* loading, with nothing called and nothing saved.
InputGate ==
  \A f \in Forms :
    /\ (isLoading[f] \/ pc[f] # "idle" \/ calls[f] # <<>> \/ downloads[f] # <<>>)
         => InputsComplete(f)
    /\ toast[f].title \in {"Missing Inputs", "Password Too Short"} =>
         /\ ~InputsComplete(f)
         /\ ~isLoading[f]
         /\ pc[f] = "idle"
         /\ calls[f] = <<>>
         /\ downloads[f] = <<>>
    /\ (pc[f] = "idle" /\ ~InputsComplete(f)) =>
         toast[f].title \in {"", "Missing Inputs", "Password Too Short"}

\* C18 witness: a handler was invoked with a file, an email and a password
\* of 6 characters.
ShortPasswordReached ==
  \E f \in Forms :
    /\ toast[f].title = "Password Too Short"
    /\ file[f].exists
    /\ Len(receiverEmail[f]) > 0
    /\ Len(password[f]) = MIN_PASSWORD_LENGTH - 1

(***************************************************************************)
(* handleDecrypt run alone: its functions one after the other on the file, *)
(* the password and the email, with nothing in between                     *)
(***************************************************************************)
DecryptAlone(table, bytes, secret, email) ==
  LET
    AloneDecrypted(fileName, decrypted) ==
      IF decrypted.ok THEN Ok(File(JsToString(fileName), decrypted.value))
      ELSE [ok |-> FALSE, error |-> decrypted.error]

    AloneUnwrapped(fileName, payload, dek) ==
      IF ~dek.ok THEN [ok |-> FALSE, error |-> dek.error]
      ELSE AloneDecrypted(fileName,
                          DecryptFileStream(table, payload, dek.value, FALSE))

    AloneStretched(metadata, payload, kp, ke) ==
      AloneUnwrapped(metadata.fileName, payload,
        UnwrapDataKey(table, metadata.wdek, metadata.wiv,
                      DeriveMasterKey(kp.value, ke.value, FALSE).value, FALSE))

    AloneParsed(parsed) ==
      IF ~parsed.ok THEN parsed
      ELSE AloneStretched(parsed.value,
                          SliceFrom(bytes, parsed.value.headerLength),
                          DeriveKeyPBKDF2(secret, parsed.value.sp, FALSE),
                          DeriveKeyPBKDF2(email, parsed.value.se, FALSE))
  IN  AloneParsed(ParseMetadata(bytes))

\* the decryption form f ended has the outcome r
EndedAs(f, r) ==
  IF r.ok
  THEN /\ toast[f] = Toast("Decryption Successful", "File recovered as", r.value.name, "")
       /\ downloads[f] = << r.value >>
  ELSE /\ toast[f] = Toast("Decryption Failed", r.error.message, <<>>, "destructive")
       /\ downloads[f] = <<>>

\* what the running handler of form f holds is derived from the inputs of
\* form f and from what it drew itself
OwnKeys(f) ==
  /\ "kp" \in DOMAIN local[f] =>
       local[f].kp = DeriveKeyPBKDF2(password[f], PasswordSalt(f), FALSE).value
  /\ "ke" \in DOMAIN local[f] =>
       local[f].ke = DeriveKeyPBKDF2(receiverEmail[f],
                       IF local[f].op = "encrypt" THEN local[f].se
                       ELSE local[f].metadata.se, FALSE).value
  /\ "km" \in DOMAIN local[f] =>
       local[f].km = DeriveMasterKey(local[f].kp, local[f].ke, FALSE).value
  /\ "wrapped" \in DOMAIN local[f] =>
       /\ WrappedIn(local[f].wrapped.wrappedKey) = {local[f].dek.raw.bytes}
       /\ \E k \in 1..Len(gcm) :
            /\ gcm[k].key = local[f].km.raw
            /\ gcm[k].iv = local[f].wrapped.iv
            /\ gcm[k].pt = local[f].dek.raw.bytes
  /\ (local[f].op = "decrypt" /\ "dek" \in DOMAIN local[f]) =>
       local[f].dek.raw.bytes \in WrappedIn(local[f].metadata.wdek)

\* what a running encryption drew: its salts, its DEK and its wrapping IV
DrawnBy(f) ==
  {local[f].sp, local[f].se}
  \cup (IF "dek" \in DOMAIN local[f] THEN {local[f].dek.raw.bytes} ELSE {})
  \cup (IF "wrapped" \in DOMAIN local[f] THEN {local[f].wrapped.iv} ELSE {})

\* C19: with the handlers of the two forms interleaved at their awaits, the
\* keys a handler holds are derived from its own form's password and email
\* and its own salts, two running encryptions share no salt, DEK or IV,
\* every decryption ends as handleDecrypt run alone on its file, password
\* and email does, and every envelope opens, alone, with the password and
\* email of its own encryption to the file of its own encryption.
PipelinesIndependent ==
  /\ \A f \in Forms : OwnKeys(f)
  /\ (local[1].op = "encrypt" /\ local[2].op = "encrypt") =>
       DrawnBy(1) \cap DrawnBy(2) = {}
  /\ \A f \in Forms :
       DecryptionEnded(f) =>
         EndedAs(f, DecryptAlone(gcm, file[f].bytes, password[f], receiverEmail[f]))
  /\ \A i \in 1..Len(encLog) :
       Sealed(i) =>
         /\ encLog[i].envelope.name = encLog[i].file.name \o ENCRYPTED_FILE_EXTENSION
         /\ DecryptAlone(gcm, encLog[i].envelope.bytes, encLog[i].password,
                         encLog[i].email) = Ok(encLog[i].file)

\* C19 witness: the two forms, with different passwords, are both in the
\* middle of an encryption of the same file, each holding its own master
\* key.
TwoPipelinesReached ==
  /\ local[1].op = "encrypt" /\ local[2].op = "encrypt"
  /\ "km" \in DOMAIN local[1] /\ "km" \in DOMAIN local[2]
  /\ password[1] # password[2]
  /\ file[1] = file[2]

\* the decryption form f ended failed in unwrapDataKey, with the
\* authentication failure, and saved nothing
FailedAtUnwrap(f) ==
  /\ toast[f] = Toast("Decryption Failed", AuthenticationFailedError.message,
                      <<>>, "destructive")
  /\ downloads[f] = <<>>
  /\ calls[f] # <<>>
  /\ calls[f][Len(calls[f])].fn = "unwrapDataKey"
  /\ calls[f][Len(calls[f])].error = AuthenticationFailedError
  /\ CallsOf(f, "decryptFileStream") = {}

\* C20: with the right password and email, a decryption of an envelope whose
\* sp, se or wiv was replaced by another value of the same length fails in
\* unwrapDataKey with the authentication failure and saves nothing; one of
\* an envelope whose fileName alone was replaced succeeds and saves the
\* file's bytes under the replaced name.
HeaderTamperDetected ==
  \A f \in Forms : \A i \in 1..Len(encLog) :
    (DecryptionEnded(f) /\ Sealed(i) /\ RightSecrets(f, i)) =>
      \A x \in ForgedOf(encLog[i].envelope) :
        file[f] = x.file =>
          IF x.field = "fileName"
          THEN /\ toast[f].title = "Decryption Successful"
               /\ downloads[f] = << File(x.name, encLog[i].file.bytes) >>
          ELSE FailedAtUnwrap(f)

\* C20 witness: a decryption with the right secrets of an envelope whose
\* password salt was replaced by its email salt has ended.
ForgedSaltReached ==
  \E f \in Forms : \E i \in 1..Len(encLog) :
    /\ DecryptionEnded(f) /\ Sealed(i) /\ RightSecrets(f, i)
    /\ \E x \in ForgedOf(encLog[i].envelope) :
         /\ file[f] = x.file
         /\ x.field = "sp"
         /\ MetadataOf(file[f]).sp = MetadataOf(encLog[i].envelope).se

\* form f holds the envelope of the i-th encryption, which was made with a
\* password and an email that differ, and has the two in each other's place
SecretsSwapped(f, i) ==
  /\ HoldsEnvelope(f, i)
  /\ encLog[i].password # encLog[i].email
  /\ password[f] = encLog[i].email
  /\ receiverEmail[f] = encLog[i].password

\* C21: a decryption of an envelope with the email given as the password
\* and the password given as the email derives another master key than the
\* one that wrapped the DEK, and fails in unwrapDataKey with the
\* authentication failure.
SecretsNotInterchangeable ==
  \A f \in Forms : \A i \in 1..Len(encLog) :
    SecretsSwapped(f, i) =>
      /\ "km" \in DOMAIN local[f] =>
           \A k \in 1..Len(gcm) : gcm[k].key # local[f].km.raw
      /\ DecryptionEnded(f) => FailedAtUnwrap(f)

\* C21 witness: a decryption with the two secrets swapped has ended.
SwappedSecretsReached ==
  \E f \in Forms : \E i \in 1..Len(encLog) :
    SecretsSwapped(f, i) /\ DecryptionEnded(f)

\* the first await of handleEncrypt and of handleDecrypt
FirstAwait == {"enc_kp", "dec_parse"}

\* this step is an invocation of a handler of form f that passed the gate
PipelineStarts(f) == pc'[f] \in FirstAwait /\ pc'[f] # pc[f]

\* this step is the end of the running handler of form f
PipelineEnds(f) == pc[f] # "idle" /\ pc'[f] = "idle"

\* how isLoading changes in a step
LoadingStep(f) ==
  /\ PipelineStarts(f) =>
       /\ ~isLoading[f] /\ pc[f] = "idle"
       /\ ButtonEnabled(f)
       /\ GateToast(f, <<>>) = NoToast
       /\ isLoading'[f]
  /\ ~isLoading[f] /\ isLoading'[f] => PipelineStarts(f)
  /\ PipelineEnds(f) => ~isLoading'[f] /\ toast'[f] # NoToast
  /\ isLoading[f] /\ ~isLoading'[f] => PipelineEnds(f)

\* C22: isLoading of a form becomes true exactly in the handler invocation
\* that passes the gate and false exactly when that handler ends; a handler
\* is running exactly while isLoading is true, the button is disabled
\* meanwhile, no handler starts while one is running, and every running
\* handler ends, with a toast, and resets isLoading.
LoadingLifecycle ==
  /\ [](\A f \in Forms : /\ isLoading[f] <=> pc[f] # "idle"
                         /\ isLoading[f] => ~ButtonEnabled(f))
  /\ [][\A f \in Forms : LoadingStep(f)]_vars
  /\ \A f \in Forms : isLoading[f] ~> (~isLoading[f] /\ toast[f] # NoToast)

\* C22 witness: after an encryption that saved its envelope, a decryption
\* has failed and isLoading is false again.
LoadingResetReached ==
  /\ disk # {}
  /\ ~isLoading[1] /\ pc[1] = "idle"
  /\ toast[1] # NoToast /\ toast[1].title = "Decryption Failed"

\* the name of the file of form f ends with '.dyadenc'
NamedEncrypted(f) ==
  /\ Len(file[f].name) >= Len(ENCRYPTED_FILE_EXTENSION)
  /\ \A k \in 1..Len(ENCRYPTED_FILE_EXTENSION) :
       file[f].name[Len(file[f].name) - Len(ENCRYPTED_FILE_EXTENSION) + k]
         = ENCRYPTED_FILE_EXTENSION[k]

\* C23: in a form of either defaultMode that has a file selected the mode is
\* 'decrypt' if and only if the file's name ends with '.dyadenc'; a step
\* that leaves the form without a file leaves its mode as it was, and the
\* mode changes only in a step that selects another file.
ModeSelection ==
  /\ [](\A f \in Forms :
          file[f].exists => (mode[f] = "decrypt" <=> NamedEncrypted(f)))
  /\ [][\A f \in Forms :
          /\ ~file'[f].exists => mode'[f] = mode[f]
          /\ mode'[f] # mode[f] => file'[f].exists /\ file'[f] # file[f]]_vars

\* C23 witness: the form of defaultMode 'encrypt' was cleared after a
\* '.dyadenc' file and is still in mode 'decrypt'; the form of defaultMode
\* 'decrypt' has a file of another name and is in mode 'encrypt'.
BothModesSwitchedReached ==
  /\ ~file[1].exists /\ mode[1] = "decrypt"
  /\ file[2].exists /\ ~NamedEncrypted(2) /\ mode[2] = "encrypt"
====
